---- MODULE Spec2Model ----
(***************************************************************************)
(* A model of the importers of 3dobs (src/src/importer): the OBJ line      *)
(* parser, the binary and ASCII STL readers, the COLLADA primitive         *)
(* assemblers, and the batch importer that drives them.                    *)
(*                                                                         *)
(* Numbers.  Coordinates are f32 in the program and integers here, with    *)
(* F32_NAN standing for a NaN (the text "nan" parses as an f32).            *)
(* A unit vector produced by glm::normalize is written as the primitive    *)
(* integer vector of the same direction (the vector divided by the gcd of  *)
(* its components), and the NaN vector that glm::normalize gives for the   *)
(* zero vector is written NaNVec.  The tangent/bitangent accumulation of   *)
(* load_obj (obj.rs 464-536) writes only the tangent and bitangent fields  *)
(* of the vertices just pushed; those two fields are not carried in the    *)
(* Vertex records below, the panics of that loop are.                      *)
(***************************************************************************)
EXTENDS Integers, Sequences, FiniteSets, TLC

(* ------------------------------------------------------------------ *)
(* Bounds of the model                                                  *)
(* ------------------------------------------------------------------ *)
MaxLines == 4
MaxCorners == 4
MaxRef == 3
MaxTris == 2
MaxFacetLines == 5
MaxPaths == 3
\* runs of equal bytes in a file handed to load_stl
MaxRuns == 2
\* lines of a .mtl file
MaxMtlLines == 4
\* nodes of a visual scene
MaxNodes == 2
\* library names on one `mtllib` line
MaxLibs == 2
\* lines of an ASCII STL file of two facets after its first line
MaxAsciiLines == 10
\* bytes of an FBX file
MaxFbxLen == 81
\* paths handed to import_models_from_paths in the life of one window
MaxLogged == 4
\* processes of the program started on one machine
MaxProcs == 3

(* ------------------------------------------------------------------ *)
(* Program constants                                                    *)
(* ------------------------------------------------------------------ *)
\* f32::MAX, the start value of min_aabb; f32::MIN is its negation.
F32_MAX == 1000000
\* the wrap of a negative i32 cast with `as usize` (2^64 in the program):
\* larger than the length of every Vec.
USIZE_WRAP == 1073741824
\* load_stl: the length of buf, the prefix of the file is_ascii looks at
SNIFF_SIZE == 512
\* stl.rs: STL_HEADER_SIZE
STL_HEADER_SIZE == 80
\* fbx.rs: the length of BINARY_FBX_MAGIC
FBX_MAGIC_SIZE == 21
\* fbx.rs: end_offset, num_properties, property_list_len (4 bytes each) and
\* name_len (1 byte)
FBX_RECORD_HEAD == 13
\* a NaN component: what "nan" parses to, and what glm::normalize yields
\* for the zero vector
F32_NAN == 2000000

VARIABLES
    fmt,                \* which parser runs: "obj", "stl_bin", "stl_ascii", "dae"
    status,             \* "run", "ok" (Ok(Object)), "err" (Err(..)), "panic"
    pc,                 \* where the running parser stands
    nlines,             \* lines / primitives consumed so far
    object_name,        \* load_obj: object_name
    current_mesh_name,  \* load_obj: current_mesh_name
    temp_vertices,      \* load_obj: position pool
    normals,            \* normal pool
    tex_coords,         \* texcoord pool
    vertices,           \* in-progress vertex buffer
    indices,            \* in-progress index buffer
    indices_counter,    \* load_obj / parse_polylist: indices_counter
    meshes,             \* completed sub-meshes
    materials,          \* load_obj: name -> Material
    current_material,   \* load_obj: current_material
    min_aabb,
    max_aabb,
    object,             \* the returned Object once status = "ok"
    stl_file,           \* the STL input: declared count, records, truncated tail
    buf,                \* TrianglesIter: buf, as normal and three vertices
    triangles_read,     \* TrianglesIter: triangles_read / enumerate() index
    facet_normal,       \* FacetIterator::next: normal
    facet_vertices,     \* FacetIterator::next: vertices
    positions,          \* parse_dae: positions
    shared,             \* parse_dae: normals, tex_coords, normal_offset,
                        \*   texcoord_offset as parse_vertices returned them
    normal_offset,      \* parse_triangles / parse_polylist: normal_offset
    texcoord_offset,    \* parse_triangles / parse_polylist: texcoord_offset
    max_offset,         \* parse_triangles / parse_polylist: max_offset
    last,               \* the last directive handled and its input (history)
    paths,              \* import_models_from_paths: paths
    next_path,          \* import_models_from_paths: position of the for loop
    objects,            \* ui::State: objects
    active_model,       \* ui::State: active_model
    logger,             \* ui::State: logger, the entries logged
    batch,              \* "run", "done", or "panic" (the thread unwound)
    call,               \* the last call of load_from_file and how it ended (history)
    stl_bytes,          \* load_stl: the bytes of the file, as runs of equal bytes
    sniff,              \* load_stl: buf after read_exact, and is_ascii of it
    mtl_status,         \* parse_mtl: "idle", "open", "run", "ok", "err", "panic"
    mtl_nlines,         \* parse_mtl: lines consumed so far
    material_name,      \* parse_mtl: material_name
    mtl_materials,      \* parse_mtl: materials, the map it returns
    ambient,            \* parse_mtl: ambient
    diffuse,            \* parse_mtl: diffuse
    specular,           \* parse_mtl: specular
    shininess,          \* parse_mtl: shininess
    opacity,            \* parse_mtl: opacity
    mat_textures,       \* parse_mtl: mat_textures
    obj_textures,       \* parse_mtl: obj_textures, load_obj's texture cache
    mtl_log,            \* the levels of the entries parse_mtl logged
    tex_trace,          \* the texture directives read and how each ended (history)
    mtl_parents,        \* parse_mtl: path.parent() of every library parsed so far,
                        \*   the running one last
    root,               \* parse_dae: root, the document as far as the scene goes
    dae_pc,             \* parse_dae: "idle", "read", "fold", "scene", "nodes", "geoms",
                        \*   "walk", or "done"
    node_index,         \* parse_dae: position of `for node in &visual_scene.nodes`
    dae_result,         \* what parse_dae returned: "", "Ok", an Err message, "panic"
    fbx_status,         \* parse_binary_fbx: "idle", "run", "todo" (the loop over the
                        \*   records ended and todo!() is reached), "panic"
    fbx_len,            \* the length of the FBX file in bytes
    fbx_pos,            \* FbxRecordIterator: reader.stream_position()
    fbx_stack,          \* the calls of next() that stand in their child loop, the
                        \*   innermost first: end_offset, and whether a call made
                        \*   from the loop returned None (history)
    fbx_calls,          \* the number of calls of next() so far (history)
    ipc_pc,             \* where each process stands: "start", "locked", "removed",
                        \*   "bound", "window", "sending", "connected", "exited",
                        \*   "panic" ("idle": no process runs)
    one_instance,       \* settings.one_instance as each process loaded it
    lock_file,          \* the process that holds the exclusive lock, 0 for none
    pipe,               \* the named pipe: whether its path exists, and the process
                        \*   whose listener is bound to it (0 for none)
    incoming,           \* pipe.incoming(): the connections not yet read, in the
                        \*   order they were made
    ipc_rx,             \* the path lists in the channel from ipc_tx to ipc_rx
    ipc_sent,           \* the processes whose write_all returned (history)
    ipc_forwarded,      \* the lists ipc_tx.send was called with (history)
    ipc_imported        \* the lists the main loop imported (history)

vars == <<fmt, status, pc, nlines, object_name, current_mesh_name, temp_vertices,
          normals, tex_coords, vertices, indices, indices_counter, meshes,
          materials, current_material, min_aabb, max_aabb, object,
          stl_file, buf, triangles_read, facet_normal, facet_vertices,
          positions, shared, normal_offset, texcoord_offset, max_offset, last,
          paths, next_path, objects, active_model, logger, batch, call,
          stl_bytes, sniff,
          mtl_status, mtl_nlines, material_name, mtl_materials, ambient, diffuse,
          specular, shininess, opacity, mat_textures, obj_textures, mtl_log,
          tex_trace, mtl_parents, root, dae_pc, node_index, dae_result,
          fbx_status, fbx_len, fbx_pos, fbx_stack, fbx_calls,
          ipc_pc, one_instance, lock_file, pipe, incoming, ipc_rx, ipc_sent,
          ipc_forwarded, ipc_imported>>

\* the variables of load_stl's format test
sniffVars == <<stl_bytes, sniff>>

\* the variables outside the four parsers and the batch import
\* the variables of parse_mtl
mtlColours == <<ambient, diffuse, specular, shininess, opacity>>

mtlVars == <<mtl_status, mtl_nlines, material_name, mtl_materials, mtlColours,
             mat_textures, obj_textures, mtl_log, tex_trace, mtl_parents>>

\* the variables of parse_dae's walk from the scene to the geometries
sceneVars == <<root, dae_pc, node_index, dae_result>>

\* the variables of the FBX record reader
fbxVars == <<fbx_status, fbx_len, fbx_pos, fbx_stack, fbx_calls>>

\* the variables of the processes around ipc::init
ipcVars == <<ipc_pc, one_instance, lock_file, pipe, incoming, ipc_rx, ipc_sent,
             ipc_forwarded, ipc_imported>>

moreVars == <<fbxVars, ipcVars>>

extraVars == <<sniffVars, mtlVars, sceneVars, moreVars>>

batchVars == <<paths, next_path, objects, active_model, logger, batch, call>>

\* the variables of the parsers that are not running
stlOnly == <<stl_file, buf, triangles_read, facet_normal, facet_vertices>>

daeOnly == <<positions, shared, normal_offset, texcoord_offset, max_offset>>

(* ------------------------------------------------------------------ *)
(* Vectors                                                              *)
(* ------------------------------------------------------------------ *)
Abs(x) == IF x < 0 THEN -x ELSE x

Min2(a, b) == IF a < b THEN a ELSE b

Max2(a, b) == IF a > b THEN a ELSE b

RECURSIVE Gcd(_, _)
Gcd(a, b) == IF b = 0 THEN a ELSE Gcd(b, a % b)

VSub(a, b) == <<a[1] - b[1], a[2] - b[2], a[3] - b[3]>>

Cross(a, b) == <<a[2] * b[3] - a[3] * b[2],
                 a[3] * b[1] - a[1] * b[3],
                 a[1] * b[2] - a[2] * b[1]>>

NaNVec == <<F32_NAN, F32_NAN, F32_NAN>>

Normalize(v) ==
    LET g == Gcd(Gcd(Abs(v[1]), Abs(v[2])), Abs(v[3]))
    IN  IF g = 0 THEN NaNVec
        ELSE <<(Abs(v[1]) \div g) * (IF v[1] < 0 THEN -1 ELSE 1),
               (Abs(v[2]) \div g) * (IF v[2] < 0 THEN -1 ELSE 1),
               (Abs(v[3]) \div g) * (IF v[3] < 0 THEN -1 ELSE 1)>>

HasNaN(v) == \E i \in 1..3 : v[i] = F32_NAN

\* f32::min / f32::max: a NaN argument is ignored
F32Min(a, b) == IF a = F32_NAN THEN b ELSE IF b = F32_NAN THEN a ELSE Min2(a, b)

F32Max(a, b) == IF a = F32_NAN THEN b ELSE IF b = F32_NAN THEN a ELSE Max2(a, b)

VMin(a, b) == <<Min2(a[1], b[1]), Min2(a[2], b[2]), Min2(a[3], b[3])>>

VMax(a, b) == <<Max2(a[1], b[1]), Max2(a[2], b[2]), Max2(a[3], b[3])>>

Zero3 == <<0, 0, 0>>

Zero2 == <<0, 0>>

AabbMinInit == <<F32_MAX, F32_MAX, F32_MAX>>

AabbMaxInit == <<-F32_MAX, -F32_MAX, -F32_MAX>>

(* ------------------------------------------------------------------ *)
(* Input domains                                                        *)
(* ------------------------------------------------------------------ *)
Points == {<<-1, 0, 0>>, <<1, 0, 0>>, <<0, 1, 0>>, <<F32_NAN, 0, 0>>}

NormalDomain == {<<0, 0, 1>>, <<1, 0, 0>>}

UVDomain == {<<0, 0>>, <<1, 1>>}

NoArg == "<none>"

NoMaterial == "<None>"

Refs == (-MaxRef)..MaxRef

Syntaxes == {"v", "v/vt", "v/vt/vn", "v//vn"}

\* A face of n corners whose position references run r0, r0+step, ...;
\* every corner is written in the syntax syn, its texcoord and normal
\* references (where the syntax has them) being aux.
MkFace(n, r0, step, syn, aux) ==
    [i \in 1..n |-> [v |-> r0 + step * (i - 1), vt |-> aux, vn |-> aux, syn |-> syn]]

FaceInputs ==
    {MkFace(n, r0, step, "v", 0) : n \in 0..MaxCorners, r0 \in Refs, step \in {0, 1}}
    \cup {MkFace(n, r0, step, syn, aux) :
              n \in 0..MaxCorners, r0 \in Refs, step \in {0, 1},
              syn \in Syntaxes \ {"v"}, aux \in {-1, 1}}


\* the arguments of a `v`, `vn` or `vt` line: enough well-formed numbers
\* ("ok"), too few tokens ("short"), or a token that is no number ("bad")
LineArgs(domain, zero) ==
    {[kind |-> "ok", val |-> x] : x \in domain}
    \cup {[kind |-> "short", val |-> zero], [kind |-> "bad", val |-> zero]}

VertexArgs == LineArgs(Points, Zero3)

NormalArgs == LineArgs(NormalDomain, Zero3)

TexCoordArgs == LineArgs(UVDomain, Zero2)

\* the name on an `o` line and the name on a `g` line
ObjectArgs == {"O"}

GroupArgs == {"G"}

NameArgs == ObjectArgs \cup GroupArgs

MaterialArgs == {"M"}

EmptyMap == [n \in {} |-> NoMaterial]

\* what parse_mtl returns for a library file: Err, or a name -> Material map
MtlResults ==
    {[ok |-> FALSE, map |-> EmptyMap],
     [ok |-> TRUE, map |-> [n \in {"M"} |-> "lib2.M"]]}

MtlLibInputs == {<<r>> : r \in MtlResults}

(* ------------------------------------------------------------------ *)
(* Index arithmetic shared by the parsers                               *)
(* ------------------------------------------------------------------ *)
\* `x as usize` of an i32
AsUsize(x) == IF x < 0 THEN USIZE_WRAP + x ELSE x

\* Vec::get(i as usize) is Some / slice index i as usize is in bounds
PoolHas(pool, i) == AsUsize(i) < Len(pool)

PoolAt(pool, i) == pool[AsUsize(i) + 1]

(* ------------------------------------------------------------------ *)
(* load_obj                                                             *)
(* ------------------------------------------------------------------ *)
\* a 1-based or negative face reference to a 0-based i32 index
ObjResolve(r, len) == IF r < 0 THEN len + r ELSE r - 1

\* temp_vertices[part.parse::<i32>().unwrap() as usize - 1] of the fallback
\* face normal: the usize subtraction underflows for 0, and the index is out
\* of bounds for a negative reference
ObjFallbackHas(r) == AsUsize(r) >= 1 /\ AsUsize(r) - 1 < Len(temp_vertices)

ObjFallbackAt(r) == temp_vertices[AsUsize(r) - 1 + 1]

ObjFallbackOk(face) ==
    /\ Len(face) >= 3
    /\ \A i \in 1..3 : ObjFallbackHas(face[i].v)

\* the two edges crossed in the other order
ObjFallbackNormal_Swapped(face) ==
    IF \E i \in 1..3 : HasNaN(ObjFallbackAt(face[i].v)) THEN NaNVec
    ELSE Normalize(Cross(VSub(ObjFallbackAt(face[3].v), ObjFallbackAt(face[1].v)),
                         VSub(ObjFallbackAt(face[2].v), ObjFallbackAt(face[1].v))))

\* normalize(cross(v2 - v1, v3 - v1)); a NaN coordinate makes the length,
\* and with it every component, NaN
ObjFallbackNormal(face) ==
    IF \E i \in 1..3 : HasNaN(ObjFallbackAt(face[i].v)) THEN NaNVec
    ELSE Normalize(Cross(VSub(ObjFallbackAt(face[2].v), ObjFallbackAt(face[1].v)),
                         VSub(ObjFallbackAt(face[3].v), ObjFallbackAt(face[1].v))))

ObjHasPosition(c) == PoolHas(temp_vertices, ObjResolve(c.v, Len(temp_vertices)))

ObjHasTexCoord(c) == PoolHas(tex_coords, ObjResolve(c.vt, Len(tex_coords)))

ObjHasNormal(c) == PoolHas(normals, ObjResolve(c.vn, Len(normals)))

\* every .get(..).unwrap() of the corner succeeds
ObjCornerOk(c) ==
    CASE c.syn = "v//vn"   -> ObjHasPosition(c) /\ ObjHasNormal(c)
      [] c.syn = "v/vt/vn" -> ObjHasPosition(c) /\ ObjHasTexCoord(c) /\ ObjHasNormal(c)
      [] c.syn = "v/vt"    -> ObjHasPosition(c) /\ ObjHasTexCoord(c)
      [] OTHER             -> ObjHasPosition(c)

ObjPosition(c) == PoolAt(temp_vertices, ObjResolve(c.v, Len(temp_vertices)))

ObjTexCoord(c) == PoolAt(tex_coords, ObjResolve(c.vt, Len(tex_coords)))

ObjNormalOf(c) == PoolAt(normals, ObjResolve(c.vn, Len(normals)))

\* the Vertex pushed for a corner
ObjCornerVertex(c, calculated_normal) ==
    CASE c.syn = "v//vn" ->
            [position |-> ObjPosition(c), normal |-> ObjNormalOf(c), tex_coords |-> Zero2]
      [] c.syn = "v/vt/vn" ->
            [position |-> ObjPosition(c), normal |-> ObjNormalOf(c),
             tex_coords |-> ObjTexCoord(c)]
      [] c.syn = "v/vt" ->
            [position |-> ObjPosition(c), normal |-> calculated_normal,
             tex_coords |-> ObjTexCoord(c)]
      [] OTHER ->
            [position |-> ObjPosition(c), normal |-> calculated_normal,
             tex_coords |-> Zero2]

\* the indices pushed while the corners i, i+1, ... of an n-corner face are
\* walked: a triangle for every i < n - 2
\* the fan closed with one triangle too many (`i < face.len() - 1`)
RECURSIVE ObjTriangulate_OneMore(_, _, _)
ObjTriangulate_OneMore(i, n, counter) ==
    IF i >= n - 1 THEN <<>>
    ELSE <<counter, counter + i + 1, counter + i + 2>>
         \o ObjTriangulate_OneMore(i + 1, n, counter)

RECURSIVE ObjTriangulate(_, _, _)
ObjTriangulate(i, n, counter) ==
    IF i >= n THEN <<>>
    ELSE (IF i < n - 2 THEN <<counter, counter + i + 1, counter + i + 2>> ELSE <<>>)
         \o ObjTriangulate(i + 1, n, counter)

\* the face is handled without a panic: the fallback normal is computable when
\* no normal was read yet, every corner resolves, and face.len() - 2 does
\* not underflow (with fewer than 2 corners the debug build panics on the
\* subtraction and the release build on vertices[index] of the tangent loop)
ObjFaceOk(face) ==
    /\ normals = <<>> => ObjFallbackOk(face)
    /\ \A i \in 1..Len(face) : ObjCornerOk(face[i])
    /\ Len(face) >= 2

ObjCalculatedNormal(face) ==
    IF normals = <<>> THEN ObjFallbackNormal(face) ELSE Zero3

ObjFaceVertices(face) ==
    [i \in 1..Len(face) |-> ObjCornerVertex(face[i], ObjCalculatedNormal(face))]

\* the name an `o` / `g` flush gives the sub-mesh
ObjFlushName_Default ==
    IF current_mesh_name # "" THEN current_mesh_name
    ELSE IF object_name # "" THEN object_name
    ELSE "default_mesh"

ObjFlushName ==
    IF current_mesh_name = "" THEN object_name ELSE current_mesh_name

\* the name a `usemtl` flush and the end of file give the sub-mesh
ObjMeshName_ObjectFirst ==
    IF object_name # "" THEN object_name
    ELSE IF current_mesh_name # "" THEN current_mesh_name
    ELSE "default_mesh"

ObjMeshName ==
    IF current_mesh_name = "" /\ object_name # "" THEN object_name
    ELSE IF current_mesh_name # "" THEN current_mesh_name
    ELSE "default_mesh"

ObjMesh(name) ==
    [name |-> name, vertices |-> vertices, indices |-> indices,
     material |-> current_material]

\* materials.extend(m)
MapExtend_KeepOld(old, m) ==
    [n \in (DOMAIN old) \cup (DOMAIN m) |-> IF n \in DOMAIN old THEN old[n] ELSE m[n]]

MapExtend(old, m) ==
    [n \in (DOMAIN old) \cup (DOMAIN m) |-> IF n \in DOMAIN m THEN m[n] ELSE old[n]]

RECURSIVE ObjMergeLibs(_, _)
ObjMergeLibs(mats, libs) ==
    IF libs = <<>> THEN mats
    ELSE ObjMergeLibs(IF Head(libs).ok THEN MapExtend(mats, Head(libs).map) ELSE mats,
                      Tail(libs))

MapGet(m, name) == IF name \in DOMAIN m THEN m[name] ELSE NoMaterial

\* the face with every in-range negative reference -k into a pool of length
\* L rewritten as the positive reference L - k + 1 to the same element
ObjPositiveRef(r, len) == IF r < 0 THEN len + r + 1 ELSE r

ObjPositiveForm(face) ==
    [i \in 1..Len(face) |->
        [v |-> ObjPositiveRef(face[i].v, Len(temp_vertices)),
         vt |-> ObjPositiveRef(face[i].vt, Len(tex_coords)),
         vn |-> ObjPositiveRef(face[i].vn, Len(normals)),
         syn |-> face[i].syn]]

ObjUsesTexCoord(c) == c.syn \in {"v/vt", "v/vt/vn"}

ObjUsesNormal(c) == c.syn \in {"v//vn", "v/vt/vn"}

\* some reference of the face is negative
ObjFaceNegative(face) ==
    \E i \in 1..Len(face) :
        \/ face[i].v < 0
        \/ ObjUsesTexCoord(face[i]) /\ face[i].vt < 0
        \/ ObjUsesNormal(face[i]) /\ face[i].vn < 0

\* every negative reference of the face has an equivalent positive one
ObjFaceNegativeInRange(face) ==
    \A i \in 1..Len(face) :
        /\ face[i].v < 0 => face[i].v >= -Len(temp_vertices)
        /\ ObjUsesTexCoord(face[i]) /\ face[i].vt < 0 => face[i].vt >= -Len(tex_coords)
        /\ ObjUsesNormal(face[i]) /\ face[i].vn < 0 => face[i].vn >= -Len(normals)

\* History: the directive handled last.  For a face: its corner count n, the
\* vertex and index counts c, k before it, whether no normal had been read,
\* whether it has negative references (all with a positive equivalent),
\* what the same face written with the equivalent positive references does
\* in the same parser state (twinOk, twinVertices), and for a face that was
\* assembled its position references and the syntax of its corners.
Op(op) ==
    [op |-> op, n |-> 0, c |-> Len(vertices), k |-> Len(indices),
     nonormals |-> normals = <<>>, negative |-> FALSE, inrange |-> FALSE,
     twinOk |-> FALSE, twinVertices |-> <<>>, refs |-> <<>>, syn |-> ""]

\* a `mtllib` line with what parse_mtl returned for each of its arguments, a
\* `usemtl` line with its mat_name
MaterialOp(op, libs, mat_name) ==
    [op |-> op, n |-> 0, c |-> Len(vertices), k |-> Len(indices),
     nonormals |-> normals = <<>>, negative |-> FALSE, inrange |-> FALSE,
     twinOk |-> FALSE, twinVertices |-> <<>>, refs |-> <<>>, syn |-> "",
     libs |-> libs, mat_name |-> mat_name]

FaceOp(face) ==
    [op |-> "f", n |-> Len(face), c |-> Len(vertices), k |-> Len(indices),
     nonormals |-> normals = <<>>,
     negative |-> ObjFaceNegative(face),
     inrange |-> ObjFaceNegativeInRange(face),
     twinOk |-> ObjFaceOk(ObjPositiveForm(face)),
     twinVertices |-> IF ObjFaceOk(ObjPositiveForm(face))
                      THEN ObjFaceVertices(ObjPositiveForm(face)) ELSE <<>>,
     refs |-> IF ObjFaceOk(face) THEN [i \in 1..Len(face) |-> face[i].v] ELSE <<>>,
     syn |-> IF ObjFaceOk(face) /\ face # <<>> THEN face[1].syn ELSE ""]

ZeroRecord == <<Zero3, Zero3, Zero3, Zero3>>

NoStlFile == [tri_count |-> 0, records |-> <<>>, tail |-> <<>>]

NoShared ==
    [normals |-> <<>>, tex_coords |-> <<>>, normal_offset |-> -1, texcoord_offset |-> -1]

NoObject == [name |-> "", meshes |-> <<>>, aabb |-> [min |-> Zero3, max |-> Zero3]]

NoCall ==
    [made |-> FALSE,
     path |-> [dir |-> FALSE, ext |-> "<none>", opens |-> FALSE, content |-> "Ok"],
     parser |-> "", result |-> "", error |-> ""]

\* Option<u32>: None, Some(id)
None == <<>>

Some(id) == <<id>>

\* no batch import is running
BatchIdle ==
    /\ paths = <<>>
    /\ next_path = 1
    /\ objects = <<>>
    /\ active_model = None
    /\ logger = <<>>
    /\ batch = "done"
    /\ call = NoCall

NoSniff == [done |-> FALSE, buf |-> {}, is_ascii |-> FALSE]

\* load_stl is not running
SniffIdle ==
    /\ stl_bytes = <<>>
    /\ sniff = NoSniff

\* parse_mtl is not running
MtlIdle ==
    /\ mtl_status = "idle"
    /\ mtl_nlines = 0
    /\ material_name = ""
    /\ mtl_materials = <<>>
    /\ ambient = Zero3
    /\ diffuse = Zero3
    /\ specular = Zero3
    /\ shininess = 32
    /\ opacity = 1
    /\ mat_textures = <<>>
    /\ obj_textures = <<>>
    /\ mtl_log = <<>>
    /\ tex_trace = <<>>
    /\ mtl_parents = <<>>

NoRoot ==
    [parses |-> TRUE, ids |-> TRUE, scene |-> FALSE, instance_visual_scene |-> FALSE,
     attr_url |-> <<>>, nodes |-> <<>>]

\* parse_dae's scene walk is not running
SceneIdle ==
    /\ root = NoRoot
    /\ dae_pc = "idle"
    /\ node_index = 1
    /\ dae_result = ""

\* the FBX record reader is not running
FbxIdle ==
    /\ fbx_status = "idle"
    /\ fbx_len = 0
    /\ fbx_pos = 0
    /\ fbx_stack = <<>>
    /\ fbx_calls = 0

\* processes started one after the other
Procs == 1..MaxProcs

NoPipe == [exists |-> FALSE, listener |-> 0]

\* no process runs
IpcIdle ==
    /\ ipc_pc = [p \in Procs |-> "idle"]
    /\ one_instance = [p \in Procs |-> FALSE]
    /\ lock_file = 0
    /\ pipe = NoPipe
    /\ incoming = <<>>
    /\ ipc_rx = <<>>
    /\ ipc_sent = {}
    /\ ipc_forwarded = <<>>
    /\ ipc_imported = <<>>

MoreIdle == FbxIdle /\ IpcIdle

ExtraIdle == SniffIdle /\ MtlIdle /\ SceneIdle /\ MoreIdle

ObjRunning == fmt = "obj" /\ status = "run" /\ nlines < MaxLines

objPools == <<temp_vertices, normals, tex_coords>>

objNames == <<object_name, current_mesh_name>>

objBuffers == <<vertices, indices, indices_counter, meshes>>

objMaterials == <<materials, current_material>>

aabbVars == <<min_aabb, max_aabb>>

objRest == <<pc, stlOnly, daeOnly, batchVars, extraVars>>

Panic(op) ==
    /\ status' = "panic"
    /\ last' = op
    /\ UNCHANGED <<objPools, objNames, objBuffers, objMaterials, aabbVars, object, objRest>>

ObjObject(arg) ==
    /\ ObjRunning
    /\ nlines' = nlines + 1
    /\ meshes' = IF vertices # <<>> THEN Append(meshes, ObjMesh(ObjFlushName)) ELSE meshes
    /\ vertices' = <<>>
    /\ indices' = <<>>
    /\ indices_counter' = 0
    /\ object_name' = IF arg = NoArg THEN "" ELSE arg
    /\ last' = Op("o")
    /\ UNCHANGED <<fmt, status, current_mesh_name, objPools, objMaterials, aabbVars, object, objRest>>

ObjGroup(arg) ==
    /\ ObjRunning
    /\ nlines' = nlines + 1
    /\ meshes' = IF vertices # <<>> THEN Append(meshes, ObjMesh(ObjFlushName)) ELSE meshes
    /\ vertices' = <<>>
    /\ indices' = <<>>
    /\ indices_counter' = 0
    /\ current_mesh_name' = IF arg = NoArg THEN "default_mesh" ELSE arg
    /\ last' = Op("g")
    /\ UNCHANGED <<fmt, status, object_name, objPools, objMaterials, aabbVars, object, objRest>>

ObjVertex(arg) ==
    /\ ObjRunning
    /\ nlines' = nlines + 1
    /\ UNCHANGED fmt
    /\ IF arg.kind = "short" THEN
            /\ status' = "err"
            /\ last' = Op("v")
            /\ UNCHANGED <<objPools, objNames, objBuffers, objMaterials, aabbVars, object, objRest>>
       ELSE IF arg.kind = "bad" THEN Panic(Op("v"))
       ELSE /\ temp_vertices' = Append(temp_vertices, arg.val)
            /\ min_aabb' = [i \in 1..3 |-> F32Min(min_aabb[i], arg.val[i])]
            /\ max_aabb' = [i \in 1..3 |-> F32Max(max_aabb[i], arg.val[i])]
            /\ last' = Op("v")
            /\ UNCHANGED <<status, normals, tex_coords, objNames, objBuffers,
                           objMaterials, object, objRest>>

ObjNormal(arg) ==
    /\ ObjRunning
    /\ nlines' = nlines + 1
    /\ UNCHANGED fmt
    /\ IF arg.kind = "short" THEN
            /\ status' = "err"
            /\ last' = Op("vn")
            /\ UNCHANGED <<objPools, objNames, objBuffers, objMaterials, aabbVars, object, objRest>>
       ELSE IF arg.kind = "bad" THEN Panic(Op("vn"))
       ELSE /\ normals' = Append(normals, arg.val)
            /\ last' = Op("vn")
            /\ UNCHANGED <<status, temp_vertices, tex_coords, objNames, objBuffers,
                           objMaterials, aabbVars, object, objRest>>

ObjTexCoordLine(arg) ==
    /\ ObjRunning
    /\ nlines' = nlines + 1
    /\ UNCHANGED fmt
    /\ IF arg.kind \in {"short", "bad"} THEN Panic(Op("vt"))
       ELSE /\ tex_coords' = Append(tex_coords, <<arg.val[1], 1 - arg.val[2]>>)
            /\ last' = Op("vt")
            /\ UNCHANGED <<status, temp_vertices, normals, objNames, objBuffers,
                           objMaterials, aabbVars, object, objRest>>

ObjFace(face) ==
    /\ ObjRunning
    /\ nlines' = nlines + 1
    /\ UNCHANGED fmt
    /\ IF ~ObjFaceOk(face) THEN Panic(FaceOp(face))
       ELSE /\ vertices' = vertices \o ObjFaceVertices(face)
            /\ indices' = indices \o ObjTriangulate(0, Len(face), indices_counter)
            /\ indices_counter' = indices_counter + Len(face)
            /\ last' = FaceOp(face)
            /\ UNCHANGED <<status, meshes, objPools, objNames, objMaterials,
                           aabbVars, object, objRest>>

ObjMaterialLib(libs) ==
    /\ ObjRunning
    /\ nlines' = nlines + 1
    /\ materials' = ObjMergeLibs(materials, libs)
    /\ last' = MaterialOp("mtllib", libs, "")
    /\ UNCHANGED <<fmt, status, current_material, objPools, objNames, objBuffers,
                   aabbVars, object, objRest>>

ObjMaterialUsage(arg) ==
    /\ ObjRunning
    /\ nlines' = nlines + 1
    /\ meshes' = IF vertices # <<>> THEN Append(meshes, ObjMesh(ObjMeshName)) ELSE meshes
    /\ vertices' = <<>>
    /\ indices' = <<>>
    /\ indices_counter' = 0
    /\ current_material' = MapGet(materials, IF arg = NoArg THEN "" ELSE arg)
    /\ last' = MaterialOp("usemtl", <<>>, IF arg = NoArg THEN "" ELSE arg)
    /\ UNCHANGED <<fmt, status, materials, objPools, objNames, aabbVars, object, objRest>>

\* empty lines, comments, `p`, `l`, `s` and unhandled tokens
ObjIgnored ==
    /\ ObjRunning
    /\ nlines' = nlines + 1
    /\ last' = Op("skip")
    /\ UNCHANGED <<fmt, status, objPools, objNames, objBuffers, objMaterials,
                   aabbVars, object, objRest>>

\* `let line = line?;` on a read error (invalid UTF-8, I/O)
ObjReadError ==
    /\ ObjRunning
    /\ nlines' = nlines + 1
    /\ status' = "err"
    /\ last' = Op("read")
    /\ UNCHANGED <<fmt, objPools, objNames, objBuffers, objMaterials, aabbVars, object, objRest>>

ObjEof ==
    /\ fmt = "obj" /\ status = "run"
    /\ meshes' = Append(meshes, ObjMesh(ObjMeshName))
    /\ object' = [name |-> object_name,
                  meshes |-> Append(meshes, ObjMesh(ObjMeshName)),
                  aabb |-> [min |-> min_aabb, max |-> max_aabb]]
    /\ status' = "ok"
    /\ last' = Op("eof")
    /\ UNCHANGED <<fmt, nlines, vertices, indices, indices_counter, objPools,
                   objNames, objMaterials, aabbVars, objRest>>

ObjNext ==
    \/ \E arg \in ObjectArgs : ObjObject(arg)
    \/ \E arg \in GroupArgs : ObjGroup(arg)
    \/ \E arg \in VertexArgs : ObjVertex(arg)
    \/ \E arg \in NormalArgs : ObjNormal(arg)
    \/ \E arg \in TexCoordArgs : ObjTexCoordLine(arg)
    \/ \E face \in FaceInputs : ObjFace(face)
    \/ \E libs \in MtlLibInputs : ObjMaterialLib(libs)
    \/ \E arg \in MaterialArgs : ObjMaterialUsage(arg)
    \/ ObjIgnored
    \/ ObjReadError
    \/ ObjEof

InitObj ==
    /\ fmt = "obj"
    /\ status = "run"
    /\ nlines = 0
    /\ object_name = ""
    /\ current_mesh_name = ""
    /\ temp_vertices = <<>>
    /\ normals = <<>>
    /\ tex_coords = <<>>
    /\ vertices = <<>>
    /\ indices = <<>>
    /\ indices_counter = 0
    /\ meshes = <<>>
    /\ materials = EmptyMap
    /\ current_material = NoMaterial
    /\ min_aabb = AabbMinInit
    /\ max_aabb = AabbMaxInit
    /\ object = NoObject
    /\ last = Op("init")
    /\ pc = "lines"
    /\ stl_file = NoStlFile
    /\ buf = ZeroRecord
    /\ triangles_read = 0
    /\ facet_normal = Zero3
    /\ facet_vertices = <<>>
    /\ positions = <<>>
    /\ shared = NoShared
    /\ normal_offset = -1
    /\ texcoord_offset = -1
    /\ max_offset = 1
    /\ BatchIdle
    /\ ExtraIdle

(* ------------------------------------------------------------------ *)
(* load_stl: the binary reader                                          *)
(* ------------------------------------------------------------------ *)
\* A 50-byte record as its normal and three vertices (the two attribute
\* bytes are read and dropped).  An input is the declared triangle count,
\* the complete records that follow it, and the leading 12-byte words of a
\* last record cut short by the end of the file.
StlRecords ==
    {<<(<<0, 0, 1>>), (<<-1, 0, 0>>), (<<1, 0, 0>>), (<<0, 1, 0>>)>>,
     <<(<<1, 0, 0>>), (<<0, 1, 0>>), (<<0, 2, -3>>), (<<0, 0, 5>>)>>}

RECURSIVE SeqsUpTo(_, _)
SeqsUpTo(S, n) ==
    IF n = 0 THEN {<<>>}
    ELSE SeqsUpTo(S, n - 1)
         \cup {Append(q, x) : q \in {r \in SeqsUpTo(S, n - 1) : Len(r) = n - 1}, x \in S}

StlTails == {SubSeq(r, 1, w) : r \in StlRecords, w \in 0..3}

StlFiles ==
    [tri_count : 0..MaxTris, records : SeqsUpTo(StlRecords, MaxTris), tail : StlTails]

\* reader.read_exact(&mut self.buf) for the record after `done` records: the
\* buffer is filled with the record when the file holds it; at the end of the
\* file the bytes that are left overwrite the head of the buffer, the rest
\* keeps the bytes of the record before, and the error is dropped (`let _ =`)
StlReadExact(file, done, old) ==
    IF done < Len(file.records) THEN file.records[done + 1]
    ELSE IF done = Len(file.records)
         THEN [w \in 1..4 |-> IF w <= Len(file.tail) THEN file.tail[w] ELSE old[w]]
         ELSE old

\* the three Vertex pushed for a triangle
StlVertices(tri) ==
    <<[position |-> tri[2], normal |-> tri[1], tex_coords |-> Zero2],
      [position |-> tri[3], normal |-> tri[1], tex_coords |-> Zero2],
      [position |-> tri[4], normal |-> tri[1], tex_coords |-> Zero2]>>

\* the index base taken per vertex instead of per triangle
StlIndices_PerVertex(i) == <<i, i + 1, i + 2>>

\* the three indices pushed for the i-th triangle of enumerate()
StlIndices(i) == <<i * 3, i * 3 + 1, i * 3 + 2>>

StlMinAabb(tri) == VMin(VMin(VMin(min_aabb, tri[2]), tri[3]), tri[4])

StlMaxAabb(tri) == VMax(VMax(VMax(max_aabb, tri[2]), tri[3]), tri[4])

StlOp(op) ==
    [op |-> op, n |-> 3, c |-> Len(vertices), k |-> Len(indices),
     nonormals |-> FALSE, negative |-> FALSE, inrange |-> FALSE,
     twinOk |-> FALSE, twinVertices |-> <<>>, refs |-> <<>>, syn |-> ""]

StlObject ==
    [name |-> "default_object",
     meshes |-> <<[name |-> "default_mesh", vertices |-> vertices,
                   indices |-> indices, material |-> "default_mat"]>>,
     aabb |-> [min |-> min_aabb, max |-> max_aabb]]

stlRest == <<pc, nlines, object_name, current_mesh_name, temp_vertices, normals,
             tex_coords, indices_counter, materials, current_material, daeOnly,
             batchVars, extraVars>>

\* TrianglesIter::next returning Some, and the body of the for loop
StlBinTriangle ==
    /\ fmt = "stl_bin" /\ status = "run"
    /\ triangles_read < stl_file.tri_count
    /\ buf' = StlReadExact(stl_file, triangles_read, buf)
    /\ triangles_read' = triangles_read + 1
    /\ vertices' = vertices \o StlVertices(buf')
    /\ min_aabb' = StlMinAabb(buf')
    /\ max_aabb' = StlMaxAabb(buf')
    /\ indices' = indices \o StlIndices(triangles_read)
    /\ last' = StlOp("triangle")
    /\ UNCHANGED <<fmt, status, meshes, object, stl_file, facet_normal,
                   facet_vertices, stlRest>>

\* TrianglesIter::next returning None, and the return of parse_binary_stl
StlBinDone ==
    /\ fmt = "stl_bin" /\ status = "run"
    /\ triangles_read >= stl_file.tri_count
    /\ status' = "ok"
    /\ object' = StlObject
    /\ meshes' = StlObject.meshes
    /\ last' = StlOp("eof")
    /\ UNCHANGED <<fmt, vertices, indices, aabbVars, stl_file, buf, triangles_read,
                   facet_normal, facet_vertices, stlRest>>

StlBinNext == StlBinTriangle \/ StlBinDone

InitStlBin ==
    /\ fmt = "stl_bin"
    /\ status = "run"
    /\ pc = "triangles"
    /\ nlines = 0
    /\ object_name = ""
    /\ current_mesh_name = ""
    /\ temp_vertices = <<>>
    /\ normals = <<>>
    /\ tex_coords = <<>>
    /\ vertices = <<>>
    /\ indices = <<>>
    /\ indices_counter = 0
    /\ meshes = <<>>
    /\ materials = EmptyMap
    /\ current_material = NoMaterial
    /\ min_aabb = AabbMinInit
    /\ max_aabb = AabbMaxInit
    /\ object = NoObject
    /\ last = Op("init")
    /\ stl_file \in StlFiles
    /\ buf = ZeroRecord
    /\ triangles_read = 0
    /\ facet_normal = Zero3
    /\ facet_vertices = <<>>
    /\ positions = <<>>
    /\ shared = NoShared
    /\ normal_offset = -1
    /\ texcoord_offset = -1
    /\ max_offset = 1
    /\ BatchIdle
    /\ ExtraIdle

(* ------------------------------------------------------------------ *)
(* load_stl: the ASCII reader                                           *)
(* ------------------------------------------------------------------ *)
StlAsciiRunning ==
    fmt = "stl_ascii" /\ status = "run" /\ pc = "facets" /\ nlines < MaxAsciiLines

stlAsciiRest == <<object_name, current_mesh_name, temp_vertices, normals, tex_coords,
                  indices_counter, materials, current_material, daeOnly, stl_file, buf,
                  batchVars, extraVars>>

StlPanic(op) ==
    /\ status' = "panic"
    /\ last' = StlOp(op)
    /\ UNCHANGED <<pc, vertices, indices, meshes, aabbVars, object, triangles_read,
                   facet_normal, facet_vertices>>

\* reader.read_line(&mut String::new())? : the `solid` line is skipped
StlAsciiFirstLine(readable) ==
    /\ fmt = "stl_ascii" /\ status = "run" /\ pc = "first"
    /\ IF readable THEN pc' = "facets" /\ status' = status
       ELSE pc' = pc /\ status' = "err"
    /\ last' = StlOp("solid")
    /\ UNCHANGED <<fmt, nlines, vertices, indices, meshes, aabbVars, object,
                   triangles_read, facet_normal, facet_vertices, stlAsciiRest>>

\* a line that contains "normal"
StlAsciiNormal(arg) ==
    /\ StlAsciiRunning
    /\ nlines' = nlines + 1
    /\ UNCHANGED <<fmt, stlAsciiRest>>
    /\ IF arg.kind # "ok" THEN StlPanic("normal")
       ELSE /\ facet_normal' = arg.val
            /\ last' = StlOp("normal")
            /\ UNCHANGED <<status, pc, vertices, indices, meshes, aabbVars, object,
                           triangles_read, facet_vertices>>

\* a line that contains "vertex" (and not "normal")
StlAsciiVertex(arg) ==
    /\ StlAsciiRunning
    /\ nlines' = nlines + 1
    /\ UNCHANGED <<fmt, stlAsciiRest>>
    /\ IF arg.kind # "ok" THEN StlPanic("vertex")
       ELSE /\ facet_vertices' = Append(facet_vertices, arg.val)
            /\ last' = StlOp("vertex")
            /\ UNCHANGED <<status, pc, vertices, indices, meshes, aabbVars, object,
                           triangles_read, facet_normal>>

\* the locals of FacetIterator::next as it leaves them for the loop
StlFacetStart_Keep == [normal |-> facet_normal, vertices |-> <<>>]

\* the locals at the start of FacetIterator::next
StlFacetStart == [normal |-> Zero3, vertices |-> <<>>]

\* the facet FacetIterator::next returns at `endfacet`
StlFacet == <<facet_normal, facet_vertices[1], facet_vertices[2], facet_vertices[3]>>

\* a line that contains "endfacet": next() returns the facet, the loop body
\* of parse_ascii_stl runs, and the following next() starts with a zero
\* normal and no vertices
StlAsciiEndFacet ==
    /\ StlAsciiRunning
    /\ nlines' = nlines + 1
    /\ UNCHANGED <<fmt, stlAsciiRest>>
    /\ IF Len(facet_vertices) < 3 THEN StlPanic("endfacet")
       ELSE /\ vertices' = vertices \o StlVertices(StlFacet)
            /\ min_aabb' = StlMinAabb(StlFacet)
            /\ max_aabb' = StlMaxAabb(StlFacet)
            /\ indices' = indices \o StlIndices(triangles_read)
            /\ triangles_read' = triangles_read + 1
            /\ facet_normal' = StlFacetStart.normal
            /\ facet_vertices' = StlFacetStart.vertices
            /\ last' = StlOp("endfacet")
            /\ UNCHANGED <<status, pc, meshes, object>>

\* any other line (outer loop, endloop, endsolid, ...)
StlAsciiOther ==
    /\ StlAsciiRunning
    /\ nlines' = nlines + 1
    /\ last' = StlOp("other")
    /\ UNCHANGED <<fmt, status, pc, vertices, indices, meshes, aabbVars, object,
                   triangles_read, facet_normal, facet_vertices, stlAsciiRest>>

\* read_line returns Ok(0) or Err(_): next() returns None and
\* parse_ascii_stl returns the Object
StlAsciiEnd ==
    /\ fmt = "stl_ascii" /\ status = "run" /\ pc = "facets"
    /\ status' = "ok"
    /\ object' = StlObject
    /\ meshes' = StlObject.meshes
    /\ last' = StlOp("eof")
    /\ UNCHANGED <<fmt, pc, nlines, vertices, indices, aabbVars, triangles_read,
                   facet_normal, facet_vertices, stlAsciiRest>>

\* files of at most MaxFacetLines lines after the first, any line in them
StlAsciiNext ==
    \/ \E readable \in BOOLEAN : StlAsciiFirstLine(readable)
    \/ \E arg \in NormalArgs : nlines < MaxFacetLines /\ StlAsciiNormal(arg)
    \/ \E arg \in VertexArgs : nlines < MaxFacetLines /\ StlAsciiVertex(arg)
    \/ nlines < MaxFacetLines /\ StlAsciiEndFacet
    \/ nlines < MaxFacetLines /\ StlAsciiOther
    \/ StlAsciiEnd

\* the well-formed lines of a file of several facets
FacetNormalArgs == {[kind |-> "ok", val |-> <<0, 0, 1>>]}

FacetVertexArgs == {[kind |-> "ok", val |-> <<-1, 0, 0>>], [kind |-> "ok", val |-> <<1, 0, 0>>]}

\* files of at most MaxAsciiLines lines after the first, every line well-formed
FacetsNext ==
    \/ StlAsciiFirstLine(TRUE)
    \/ \E arg \in FacetNormalArgs : StlAsciiNormal(arg)
    \/ \E arg \in FacetVertexArgs : StlAsciiVertex(arg)
    \/ StlAsciiEndFacet
    \/ StlAsciiOther
    \/ StlAsciiEnd

InitStlAscii ==
    /\ fmt = "stl_ascii"
    /\ status = "run"
    /\ pc = "first"
    /\ nlines = 0
    /\ object_name = ""
    /\ current_mesh_name = ""
    /\ temp_vertices = <<>>
    /\ normals = <<>>
    /\ tex_coords = <<>>
    /\ vertices = <<>>
    /\ indices = <<>>
    /\ indices_counter = 0
    /\ meshes = <<>>
    /\ materials = EmptyMap
    /\ current_material = NoMaterial
    /\ min_aabb = AabbMinInit
    /\ max_aabb = AabbMaxInit
    /\ object = NoObject
    /\ last = Op("init")
    /\ stl_file = NoStlFile
    /\ buf = ZeroRecord
    /\ triangles_read = 0
    /\ facet_normal = Zero3
    /\ facet_vertices = <<>>
    /\ positions = <<>>
    /\ shared = NoShared
    /\ normal_offset = -1
    /\ texcoord_offset = -1
    /\ max_offset = 1
    /\ BatchIdle
    /\ ExtraIdle

(* ------------------------------------------------------------------ *)
(* parse_dae: parse_vertices, parse_triangles, parse_polylist           *)
(* ------------------------------------------------------------------ *)
\* the float arrays of the <source> elements of the mesh
DaePositionSources ==
    {<<(<<-1, 0, 0>>), (<<1, 0, 0>>), (<<0, 1, 0>>)>>,
     <<(<<-1, 0, 0>>), (<<1, 0, 0>>), (<<0, 1, 0>>), (<<0, 2, -3>>)>>}

DaeNormalSource == <<(<<0, 0, 1>>), (<<1, 0, 0>>)>>

DaeTexCoordSource == <<(<<0, 0>>), (<<1, 1>>)>>

\* a per-vertex NORMAL source of <vertices>: one normal for every position
DaeVertexNormals(pos) == [i \in 1..Len(pos) |-> <<0, i, 1>>]

\* the <input> elements of a primitive: the offsets of its NORMAL and
\* TEXCOORD inputs, -1 when it has none
DaeInputs == {[normal |-> -1, texcoord |-> -1],
              [normal |-> 1, texcoord |-> -1],
              [normal |-> 1, texcoord |-> 2]}

\* the width vcount * max_offset slice of <p> for a polygon whose position
\* indices run r0, r0+step, ..., every corner carrying the normal index an
\* and the texcoord index at at the offsets of those inputs
DaeChunk(vcount, r0, step, an, at) ==
    [j \in 1..(vcount * max_offset) |->
        LET c == (j - 1) \div max_offset
            off == (j - 1) % max_offset
        IN  IF off = 0 THEN r0 + step * c
            ELSE IF off = normal_offset THEN an
            ELSE IF off = texcoord_offset THEN at
            ELSE 0]

DaeRefs == {-MaxRef, 0, 1}

\* polygons written with indices counted from the end carry -1 as their
\* normal and texcoord index, the others 0
DaePolyInputs ==
    {[vcount |-> n, poly |-> DaeChunk(n, r0, step, IF r0 < 0 THEN -1 ELSE 0,
                                      IF r0 < 0 THEN -1 ELSE 0)] :
        n \in 0..MaxCorners, r0 \in DaeRefs, step \in {0, 1}}

DaeTriangleInputs ==
    {DaeChunk(3, r0, step, r0 % 2, r0 % 2) : r0 \in 0..(MaxRef - 1), step \in {0, 1}}

\* the <input> elements of <vertices>: POSITION alone, with NORMAL, or with
\* NORMAL and TEXCOORD
DaeVertexInputs == {[normal |-> FALSE, texcoord |-> FALSE],
                    [normal |-> TRUE, texcoord |-> FALSE],
                    [normal |-> TRUE, texcoord |-> TRUE]}

\* slice[i] with i: usize is in bounds
SliceHas(slice, i) == i >= 0 /\ i < Len(slice)

\* a negative index counted from the end of its pool
DaeResolve(idx, len) == IF idx < 0 THEN len + idx ELSE idx

\* parse_polylist, `let norm = ...` evaluates without a panic
DaePolyNormOk(poly) ==
    IF normal_offset # -1
    THEN /\ SliceHas(poly, normal_offset)
         /\ PoolHas(normals, DaeResolve(poly[normal_offset + 1], Len(normals)))
    ELSE /\ SliceHas(poly, 0) /\ PoolHas(positions, poly[1])
         /\ SliceHas(poly, max_offset) /\ PoolHas(positions, poly[max_offset + 1])
         /\ SliceHas(poly, max_offset * 2) /\ PoolHas(positions, poly[max_offset * 2 + 1])

DaePolyNorm(poly) ==
    IF normal_offset # -1
    THEN PoolAt(normals, DaeResolve(poly[normal_offset + 1], Len(normals)))
    ELSE Normalize(Cross(
            VSub(PoolAt(positions, poly[max_offset + 1]), PoolAt(positions, poly[1])),
            VSub(PoolAt(positions, poly[max_offset * 2 + 1]), PoolAt(positions, poly[1]))))

DaePolyTexOk(poly) ==
    texcoord_offset # -1 =>
        /\ SliceHas(poly, texcoord_offset)
        /\ PoolHas(tex_coords, DaeResolve(poly[texcoord_offset + 1], Len(tex_coords)))

DaePolyTex(poly) ==
    IF texcoord_offset # -1
    THEN PoolAt(tex_coords, DaeResolve(poly[texcoord_offset + 1], Len(tex_coords)))
    ELSE Zero2

DaePolyPosOk(poly, c) ==
    PoolHas(positions, DaeResolve(poly[c * max_offset + 1], Len(positions)))

DaePolyPos(poly, c) ==
    PoolAt(positions, DaeResolve(poly[c * max_offset + 1], Len(positions)))

\* one polygon is assembled without a panic; `0..vcount - 2` underflows for
\* fewer than 2 corners (a panic in the debug build, an allocation failure
\* after 2^32 iterations in the release build)
DaePolyOk(vcount, poly) ==
    /\ DaePolyNormOk(poly)
    /\ DaePolyTexOk(poly)
    /\ \A c \in 0..(vcount - 1) : DaePolyPosOk(poly, c)
    /\ vcount >= 2

DaePolyVertices(vcount, poly) ==
    [i \in 1..vcount |->
        [position |-> DaePolyPos(poly, i - 1), normal |-> DaePolyNorm(poly),
         tex_coords |-> DaePolyTex(poly)]]

\* a strip in place of the fan: triangle j rooted at corner j
RECURSIVE DaeTriangulate_Strip(_, _, _)
DaeTriangulate_Strip(j, vcount, counter) ==
    IF j >= vcount - 2 THEN <<>>
    ELSE <<counter + j, counter + j + 1, counter + j + 2>>
         \o DaeTriangulate_Strip(j + 1, vcount, counter)

\* `for j in 0..vcount - 2` pushing a triangle each
RECURSIVE DaeTriangulate(_, _, _)
DaeTriangulate(j, vcount, counter) ==
    IF j >= vcount - 2 THEN <<>>
    ELSE <<counter, counter + j + 1, counter + j + 2>>
         \o DaeTriangulate(j + 1, vcount, counter)

\* the polygon with each negative index rewritten as the index of the same
\* element counted from the start of its pool
DaePoolLen(off) ==
    IF off = 0 THEN Len(positions)
    ELSE IF off = normal_offset THEN Len(normals)
    ELSE Len(tex_coords)

DaePositiveForm(poly) ==
    [j \in 1..Len(poly) |->
        IF poly[j] < 0 THEN DaePoolLen((j - 1) % max_offset) + poly[j] ELSE poly[j]]

DaePolyNegative(poly) == \E j \in 1..Len(poly) : poly[j] < 0

DaePolyNegativeInRange(poly) ==
    /\ \A j \in 1..Len(poly) :
          poly[j] < 0 => poly[j] >= -DaePoolLen((j - 1) % max_offset)
    /\ normal_offset = 0 => Len(normals) = Len(positions)
    /\ texcoord_offset = 0 => Len(tex_coords) = Len(positions)

DaePolyOp(vcount, poly) ==
    [op |-> "polygon", n |-> vcount, c |-> Len(vertices), k |-> Len(indices),
     nonormals |-> normal_offset = -1,
     negative |-> DaePolyNegative(poly),
     inrange |-> DaePolyNegativeInRange(poly),
     twinOk |-> DaePolyOk(vcount, DaePositiveForm(poly)),
     twinVertices |-> IF DaePolyOk(vcount, DaePositiveForm(poly))
                      THEN DaePolyVertices(vcount, DaePositiveForm(poly)) ELSE <<>>,
     refs |-> IF DaePolyOk(vcount, poly)
              THEN [i \in 1..vcount |-> poly[(i - 1) * max_offset + 1]] ELSE <<>>,
     chunk |-> IF DaePolyOk(vcount, poly) THEN poly ELSE <<>>,
     syn |-> ""]

\* parse_triangles: one chunk of 3 * max_offset indices (all u32)
DaeTriangleOk(tri) ==
    /\ normal_offset # -1 => PoolHas(normals, tri[normal_offset + 1])
    /\ texcoord_offset # -1 => PoolHas(tex_coords, tri[texcoord_offset + 1])
    /\ \A c \in 0..2 : PoolHas(positions, tri[c * max_offset + 1])

DaeTriangleVertices(tri) ==
    [i \in 1..3 |->
        [position |-> PoolAt(positions, tri[(i - 1) * max_offset + 1]),
         normal |-> IF normal_offset # -1
                    THEN PoolAt(normals, tri[normal_offset + 1]) ELSE Zero3,
         tex_coords |-> IF texcoord_offset # -1
                        THEN PoolAt(tex_coords, tri[texcoord_offset + 1]) ELSE Zero2]]

RECURSIVE DaeAabbMin(_, _)
DaeAabbMin(acc, pos) ==
    IF pos = <<>> THEN acc ELSE DaeAabbMin(VMin(acc, Head(pos)), Tail(pos))

RECURSIVE DaeAabbMax(_, _)
DaeAabbMax(acc, pos) ==
    IF pos = <<>> THEN acc ELSE DaeAabbMax(VMax(acc, Head(pos)), Tail(pos))

DaeOp(op) ==
    [op |-> op, n |-> 3, c |-> Len(vertices), k |-> Len(indices),
     nonormals |-> normal_offset = -1, negative |-> FALSE, inrange |-> FALSE,
     twinOk |-> FALSE, twinVertices |-> <<>>, refs |-> <<>>, chunk |-> <<>>,
     syn |-> ""]

\* the history of one iteration of parse_triangles: the chunk it read
DaeTriangleOp(tri) ==
    [op |-> "triangle", n |-> 3, c |-> Len(vertices), k |-> Len(indices),
     nonormals |-> normal_offset = -1, negative |-> FALSE, inrange |-> FALSE,
     twinOk |-> FALSE, twinVertices |-> <<>>, refs |-> <<>>, chunk |-> tri,
     syn |-> ""]

DaeRunning == fmt = "dae" /\ status = "run" /\ nlines < MaxLines

daeRest == <<object_name, current_mesh_name, temp_vertices, materials,
             current_material, stl_file, buf, facet_normal, facet_vertices,
             batchVars, extraVars>>

daeLocals == <<normals, tex_coords, normal_offset, texcoord_offset, max_offset,
               vertices, indices, indices_counter, triangles_read>>

DaePanic(op) ==
    /\ status' = "panic"
    /\ last' = op
    /\ UNCHANGED <<pc, positions, shared, daeLocals, meshes, aabbVars, object>>

\* parse_vertices for the <vertices> of one geometry instance
DaeVertices(pos, vnormal, vtexcoord) ==
    /\ DaeRunning /\ pc \in {"vertices", "prims"}
    /\ nlines' = nlines + 1
    /\ pc' = "prims"
    /\ positions' = pos
    /\ min_aabb' = DaeAabbMin(min_aabb, pos)
    /\ max_aabb' = DaeAabbMax(max_aabb, pos)
    /\ shared' = [normals |-> IF vnormal THEN DaeVertexNormals(pos) ELSE <<>>,
                  tex_coords |-> IF vtexcoord THEN DaeTexCoordSource ELSE <<>>,
                  normal_offset |-> IF vnormal THEN 0 ELSE -1,
                  texcoord_offset |-> IF vtexcoord THEN 0 ELSE -1]
    /\ last' = DaeOp("vertices")
    /\ UNCHANGED <<fmt, status, daeLocals, meshes, object, daeRest>>

DaeMaxOffset(inputs) == Max2(Max2(1, inputs.normal + 1), inputs.texcoord + 1)

\* the head of parse_triangles / parse_polylist: <p> is parsed and the
\* <input> elements are walked
DaeBegin(inputs, to) ==
    /\ pc' = to
    /\ normal_offset' =
          IF inputs.normal # -1 THEN inputs.normal ELSE shared.normal_offset
    /\ normals' = IF inputs.normal # -1 THEN DaeNormalSource ELSE shared.normals
    /\ texcoord_offset' =
          IF inputs.texcoord # -1 THEN inputs.texcoord ELSE shared.texcoord_offset
    /\ tex_coords' = IF inputs.texcoord # -1 THEN DaeTexCoordSource ELSE shared.tex_coords
    /\ max_offset' = DaeMaxOffset(inputs)
    /\ vertices' = <<>>
    /\ indices' = <<>>
    /\ indices_counter' = 0
    /\ triangles_read' = 0
    /\ UNCHANGED <<status, positions, shared, meshes, aabbVars, object>>

\* parse_polylist up to its loop; countOk: attr_count = vcounts.len()
DaePolylistBegin(inputs, countOk) ==
    /\ DaeRunning /\ pc = "prims"
    /\ nlines' = nlines + 1
    /\ UNCHANGED <<fmt, daeRest>>
    /\ IF ~countOk THEN DaePanic(DaeOp("polylist"))
       ELSE DaeBegin(inputs, "poly") /\ last' = DaeOp("polylist")

\* one iteration of the loop of parse_polylist; short: <p> ends before the
\* vcount * max_offset indices of the polygon
DaePolygon(in, short) ==
    /\ DaeRunning /\ pc = "poly"
    /\ nlines' = nlines + 1
    /\ UNCHANGED <<fmt, daeRest>>
    /\ IF short THEN DaePanic(DaeOp("slice"))
       ELSE IF ~DaePolyOk(in.vcount, in.poly)
       THEN DaePanic(DaePolyOp(in.vcount, in.poly))
       ELSE /\ vertices' = vertices \o DaePolyVertices(in.vcount, in.poly)
            /\ indices' = indices \o DaeTriangulate(0, in.vcount, indices_counter)
            /\ indices_counter' = indices_counter + in.vcount
            /\ last' = DaePolyOp(in.vcount, in.poly)
            /\ UNCHANGED <<status, pc, positions, shared, normals, tex_coords,
                           normal_offset, texcoord_offset, max_offset,
                           triangles_read, meshes, aabbVars, object>>

DaeMesh ==
    [name |-> "default_mesh", vertices |-> vertices, indices |-> indices,
     material |-> NoMaterial]

\* the return of parse_triangles / parse_polylist and meshes.push
DaePrimitiveEnd ==
    /\ fmt = "dae" /\ status = "run" /\ pc \in {"poly", "tris"}
    /\ pc' = "prims"
    /\ meshes' = Append(meshes, DaeMesh)
    /\ last' = DaeOp("end")
    /\ UNCHANGED <<fmt, status, nlines, positions, shared, daeLocals, aabbVars,
                   object, daeRest>>

\* parse_triangles up to its loop; unsigned: every index of <p> parses as u32
DaeTrianglesBegin(inputs, unsigned) ==
    /\ DaeRunning /\ pc = "prims"
    /\ nlines' = nlines + 1
    /\ UNCHANGED <<fmt, daeRest>>
    /\ IF ~unsigned THEN DaePanic(DaeOp("triangles"))
       ELSE DaeBegin(inputs, "tris") /\ last' = DaeOp("triangles")

\* one iteration of the loop of parse_triangles
DaeTriangle(tri) ==
    /\ DaeRunning /\ pc = "tris"
    /\ nlines' = nlines + 1
    /\ UNCHANGED <<fmt, daeRest>>
    /\ IF ~DaeTriangleOk(tri) THEN DaePanic(DaeOp("triangle"))
       ELSE /\ vertices' = vertices \o DaeTriangleVertices(tri)
            /\ indices' = indices \o StlIndices(triangles_read)
            /\ triangles_read' = triangles_read + 1
            /\ last' = DaeTriangleOp(tri)
            /\ UNCHANGED <<status, pc, positions, shared, normals, tex_coords,
                           normal_offset, texcoord_offset, max_offset,
                           indices_counter, meshes, aabbVars, object>>

\* a primitive without <p>, or lines / polygons / strips / fans
DaeSkipPrimitive ==
    /\ DaeRunning /\ pc = "prims"
    /\ nlines' = nlines + 1
    /\ last' = DaeOp("skip")
    /\ UNCHANGED <<fmt, status, pc, positions, shared, daeLocals, meshes, aabbVars,
                   object, daeRest>>

\* the return of parse_dae
DaeFinish ==
    /\ fmt = "dae" /\ status = "run" /\ pc \in {"vertices", "prims"}
    /\ status' = "ok"
    /\ object' = [name |-> "default_obj", meshes |-> meshes,
                  aabb |-> [min |-> min_aabb, max |-> max_aabb]]
    /\ last' = DaeOp("eof")
    /\ UNCHANGED <<fmt, pc, nlines, positions, shared, daeLocals, meshes, aabbVars,
                   daeRest>>

DaeNext ==
    \/ \E pos \in DaePositionSources, vin \in DaeVertexInputs :
          DaeVertices(pos, vin.normal, vin.texcoord)
    \/ \E inputs \in DaeInputs, countOk \in BOOLEAN : DaePolylistBegin(inputs, countOk)
    \/ \E in \in DaePolyInputs, short \in BOOLEAN : DaePolygon(in, short)
    \/ \E inputs \in DaeInputs, unsigned \in BOOLEAN : DaeTrianglesBegin(inputs, unsigned)
    \/ \E tri \in DaeTriangleInputs : DaeTriangle(tri)
    \/ DaePrimitiveEnd
    \/ DaeSkipPrimitive
    \/ DaeFinish

InitDae ==
    /\ fmt = "dae"
    /\ status = "run"
    /\ pc = "vertices"
    /\ nlines = 0
    /\ object_name = ""
    /\ current_mesh_name = ""
    /\ temp_vertices = <<>>
    /\ normals = <<>>
    /\ tex_coords = <<>>
    /\ vertices = <<>>
    /\ indices = <<>>
    /\ indices_counter = 0
    /\ meshes = <<>>
    /\ materials = EmptyMap
    /\ current_material = NoMaterial
    /\ min_aabb = AabbMinInit
    /\ max_aabb = AabbMaxInit
    /\ object = NoObject
    /\ last = Op("init")
    /\ stl_file = NoStlFile
    /\ buf = ZeroRecord
    /\ triangles_read = 0
    /\ facet_normal = Zero3
    /\ facet_vertices = <<>>
    /\ positions = <<>>
    /\ shared = NoShared
    /\ normal_offset = -1
    /\ texcoord_offset = -1
    /\ max_offset = 1
    /\ BatchIdle
    /\ ExtraIdle

(* ------------------------------------------------------------------ *)
(* load_from_file and import_models_from_paths                          *)
(* ------------------------------------------------------------------ *)
\* Path::extension() is None
NoExt == "<none>"

\* A path: whether it is a directory, its extension, whether File::open
\* succeeds, and how the parser the file is handed to ends on its content:
\* "Ok" (Ok(Object)), "Err" (an Err value) or "Panic" (an unwrap, an index
\* or an assertion fails in the parser), the three ends `status` has above.
PathInputs ==
    {[dir |-> TRUE, ext |-> NoExt, opens |-> FALSE, content |-> "Ok"]}
    \cup {[dir |-> FALSE, ext |-> e, opens |-> TRUE, content |-> "Ok"] :
              e \in {NoExt, "txt", "dae", "obj", "OBJ", "stl"}}
    \cup {[dir |-> FALSE, ext |-> "obj", opens |-> TRUE, content |-> c] : c \in {"Err", "Panic"}}
    \cup {[dir |-> FALSE, ext |-> "obj", opens |-> FALSE, content |-> "Ok"],
          [dir |-> FALSE, ext |-> "stl", opens |-> TRUE, content |-> "Panic"]}

\* str::to_ascii_lowercase on the extensions above
ToAsciiLowercase(s) == IF s = "OBJ" THEN "obj" ELSE s

\* SupportedFileExtensions::from_str
FromStr(s) ==
    CASE ToAsciiLowercase(s) = "obj" -> "Some(OBJ)"
      [] ToAsciiLowercase(s) = "stl" -> "Some(STL)"
      [] OTHER -> "None"

\* load_from_file: the parser the file is handed to ("" when none is)
LoadParser(path) ==
    IF ~path.opens \/ path.ext = NoExt THEN ""
    ELSE CASE FromStr(path.ext) = "Some(STL)" -> "stl::load_stl"
           [] FromStr(path.ext) = "Some(OBJ)" -> "obj::load_obj"
           [] OTHER -> ""

\* load_from_file: how the call ends.  File::open(..)? returns the io error;
\* path.extension().unwrap() panics without an extension; the `_` arm of
\* the match is panic!("Unsupported file extension"); `load_stl(file)?` and
\* `load_obj(path, file)?` pass the parser's Err on and a panic unwinds.
LoadResult(path) ==
    IF ~path.opens THEN [result |-> "Err", error |-> "io"]
    ELSE IF path.ext = NoExt THEN [result |-> "Panic", error |-> ""]
    ELSE IF FromStr(path.ext) = "None" THEN [result |-> "Panic", error |-> ""]
    ELSE IF path.content = "Err" THEN [result |-> "Err", error |-> "parse"]
    ELSE [result |-> path.content, error |-> ""]

load_from_file(path) ==
    [made |-> TRUE, path |-> path, parser |-> LoadParser(path),
     result |-> LoadResult(path).result, error |-> LoadResult(path).error]

\* the number of the objects as the next id
get_next_id_Count == Len(objects)

\* State::get_next_id
get_next_id == IF objects = <<>> THEN 0 ELSE objects[Len(objects)].id + 1

parserVars == <<fmt, status, pc, nlines, object_name, current_mesh_name,
                temp_vertices, normals, tex_coords, vertices, indices,
                indices_counter, meshes, materials, current_material, min_aabb,
                max_aabb, object, stlOnly, daeOnly, last, extraVars>>

BatchRunning == fmt = "batch" /\ batch = "run" /\ next_path <= Len(paths)

\* state.logger.log(..) about the path of this iteration
Log(what, level) ==
    logger' = Append(logger, [what |-> what, level |-> level, about |-> next_path])

\* the iteration of the loop for a directory
BatchSkipDirectory ==
    /\ BatchRunning
    /\ paths[next_path].dir
    /\ Log("Skipping directory", "Info")
    /\ next_path' = next_path + 1
    /\ UNCHANGED <<paths, objects, active_model, batch, call, parserVars>>

\* the iteration for a file without an extension, or with one that
\* SupportedFileExtensions::from_str does not know
BatchSkipFile ==
    /\ BatchRunning
    /\ ~paths[next_path].dir
    /\ paths[next_path].ext = NoExt \/ FromStr(paths[next_path].ext) = "None"
    /\ Log(IF paths[next_path].ext = NoExt THEN "Skipping file: no extension"
           ELSE "Skipping file: not an OBJ or STL file", "Info")
    /\ next_path' = next_path + 1
    /\ UNCHANGED <<paths, objects, active_model, batch, call, parserVars>>

\* the iteration that calls load_from_file; a panic in the call unwinds
\* through import_models_from_paths
BatchLoad ==
    /\ BatchRunning
    /\ ~paths[next_path].dir
    /\ paths[next_path].ext # NoExt /\ FromStr(paths[next_path].ext) # "None"
    /\ call' = load_from_file(paths[next_path])
    /\ UNCHANGED <<paths, parserVars>>
    /\ CASE call'.result = "Ok" ->
              /\ objects' = Append(objects, [id |-> get_next_id, name |-> next_path])
              /\ active_model' = Some(get_next_id)
              /\ Log("Loaded model", "Info")
              /\ next_path' = next_path + 1
              /\ UNCHANGED batch
         [] call'.result = "Err" ->
              /\ Log("Error loading model", "Error")
              /\ next_path' = next_path + 1
              /\ UNCHANGED <<objects, active_model, batch>>
         [] OTHER ->
              /\ batch' = "panic"
              /\ UNCHANGED <<objects, active_model, logger, next_path>>

\* the end of the for loop
BatchReturn ==
    /\ fmt = "batch" /\ batch = "run" /\ next_path > Len(paths)
    /\ batch' = "done"
    /\ UNCHANGED <<paths, next_path, objects, active_model, logger, call, parserVars>>

\* load_from_file called on its own (it is `pub`)
DirectLoad ==
    /\ fmt = "load" /\ batch = "run"
    /\ call' = load_from_file(paths[1])
    /\ batch' = IF call'.result = "Panic" THEN "panic" ELSE "done"
    /\ next_path' = 2
    /\ UNCHANGED <<paths, objects, active_model, logger, parserVars>>

BatchNext == BatchSkipDirectory \/ BatchSkipFile \/ BatchLoad \/ BatchReturn \/ DirectLoad

\* no parser is running
ParserIdle ==
    /\ status = "idle"
    /\ pc = "idle"
    /\ nlines = 0
    /\ object_name = ""
    /\ current_mesh_name = ""
    /\ temp_vertices = <<>>
    /\ normals = <<>>
    /\ tex_coords = <<>>
    /\ vertices = <<>>
    /\ indices = <<>>
    /\ indices_counter = 0
    /\ meshes = <<>>
    /\ materials = EmptyMap
    /\ current_material = NoMaterial
    /\ min_aabb = AabbMinInit
    /\ max_aabb = AabbMaxInit
    /\ object = NoObject
    /\ last = Op("init")
    /\ stl_file = NoStlFile
    /\ buf = ZeroRecord
    /\ triangles_read = 0
    /\ facet_normal = Zero3
    /\ facet_vertices = <<>>
    /\ positions = <<>>
    /\ shared = NoShared
    /\ normal_offset = -1
    /\ texcoord_offset = -1
    /\ max_offset = 1

\* import_models_from_paths is entered with no model or one model loaded
InitBatch ==
    /\ ParserIdle
    /\ ExtraIdle
    /\ fmt = "batch"
    /\ paths \in SeqsUpTo(PathInputs, MaxPaths)
    /\ next_path = 1
    /\ objects \in {<<>>, <<[id |-> 2, name |-> 0]>>}
    /\ active_model = IF objects = <<>> THEN None ELSE Some(2)
    /\ logger = <<>>
    /\ batch = "run"
    /\ call = NoCall

InitLoad ==
    /\ ParserIdle
    /\ ExtraIdle
    /\ fmt = "load"
    /\ paths \in {<<p>> : p \in PathInputs}
    /\ next_path = 1
    /\ objects = <<>>
    /\ active_model = None
    /\ logger = <<>>
    /\ batch = "run"
    /\ call = NoCall

SpecBatch == (InitBatch \/ InitLoad) /\ [][BatchNext]_vars

(* ------------------------------------------------------------------ *)
(* The objects of the window: imports, selections, removals            *)
(* ------------------------------------------------------------------ *)
\* the path lists the main loop imports: files that load, one that does
\* not, a directory and a file that is no model
ObjFile(content) == [dir |-> FALSE, ext |-> "obj", opens |-> TRUE, content |-> content]

ImportLists ==
    {<<ObjFile("Ok")>>, <<ObjFile("Ok"), ObjFile("Ok")>>, <<ObjFile("Err")>>,
     <<[dir |-> TRUE, ext |-> NoExt, opens |-> FALSE, content |-> "Ok"],
       [dir |-> FALSE, ext |-> "txt", opens |-> TRUE, content |-> "Ok"]>>}

\* the window is open and no import runs: the main loop draws its frame
FrameRuns == fmt = "batch" /\ batch = "done"

\* main: import_models_from_paths is called with the paths of the command
\* line or with a list received from the listener
ImportCall(ps) ==
    /\ FrameRuns
    /\ Len(logger) + Len(ps) <= MaxLogged
    /\ paths' = ps
    /\ next_path' = 1
    /\ batch' = "run"
    /\ UNCHANGED <<objects, active_model, logger, call, parserVars>>

\* keeping the selection whatever was removed
ActiveAfterRemove_Keep(rest, id) == active_model

\* draw_objects_window after state.objects.remove(i): rest is what is left
ActiveAfterRemove(rest, id) ==
    IF active_model = Some(id)
    THEN IF rest = <<>> THEN None ELSE Some(rest[Len(rest)].id)
    ELSE active_model

RemoveAt(seq, i) == SubSeq(seq, 1, i - 1) \o SubSeq(seq, i + 1, Len(seq))

\* one frame of draw_objects_window in which the check box ("select") or
\* the X button ("remove") of row idx is pressed
draw_objects_window(click, idx) ==
    /\ FrameRuns
    /\ idx \in 1..Len(objects)
    /\ IF click = "select"
       THEN /\ active_model' = Some(objects[idx].id)
            /\ UNCHANGED objects
       ELSE /\ objects' = RemoveAt(objects, idx)
            /\ active_model' = ActiveAfterRemove(RemoveAt(objects, idx), objects[idx].id)
    /\ UNCHANGED <<paths, next_path, logger, batch, call, parserVars>>

\* main, CursorPos with the left button down: the active model is looked up
\* by its id and rotated, `find(..).unwrap()`
CursorPos ==
    /\ FrameRuns
    /\ batch' = IF active_model = None
                    \/ \E i \in 1..Len(objects) : Some(objects[i].id) = active_model
                 THEN batch ELSE "panic"
    /\ UNCHANGED <<paths, next_path, objects, active_model, logger, call, parserVars>>

ObjectsNext ==
    \/ \E ps \in ImportLists : ImportCall(ps)
    \/ BatchSkipDirectory
    \/ BatchSkipFile
    \/ BatchLoad
    \/ BatchReturn
    \/ \E click \in {"select", "remove"}, idx \in 1..MaxLogged : draw_objects_window(click, idx)
    \/ CursorPos

\* State::new: no object, no active model
InitObjects ==
    /\ ParserIdle
    /\ ExtraIdle
    /\ BatchIdle
    /\ fmt = "batch"

SpecObjects == InitObjects /\ [][ObjectsNext]_vars

(* ------------------------------------------------------------------ *)
(* load_stl: the choice between the ASCII and the binary parser         *)
(* ------------------------------------------------------------------ *)
\* byte values: NUL, line feed, 's', DEL, and two bytes with the top bit set
StlByteValues == {0, 10, 115, 127, 128, 255}

\* a file is a sequence of runs of one byte value; a run is one byte, a
\* header's length or a whole buf long
StlRuns == [byte : StlByteValues, count : {1, STL_HEADER_SIZE, SNIFF_SIZE}]

RECURSIVE FileLen(_)
FileLen(runs) ==
    IF runs = <<>> THEN 0 ELSE Head(runs).count + FileLen(Tail(runs))

\* the byte values among the first `room` bytes of the file
RECURSIVE PrefixBytes(_, _)
PrefixBytes(runs, room) ==
    IF runs = <<>> \/ room <= 0
    THEN {}
    ELSE {Head(runs).byte} \cup PrefixBytes(Tail(runs), room - Head(runs).count)

\* buf: [u8; 512] = [0; 512] after file.read_exact(&mut buf) with the result
\* dropped: a shorter file fills the front and leaves the zeros behind it
StlReadBuf(runs) ==
    PrefixBytes(runs, SNIFF_SIZE)
        \cup (IF FileLen(runs) < SNIFF_SIZE THEN {0} ELSE {})

\* is_ascii, over the byte values of buf
is_ascii(bytes) == \A b \in bytes : ~(b > 127)

\* load_stl up to the call of parse_ascii_stl or parse_binary_stl; the parsers
\* themselves are the StlAscii.. and StlBin.. actions
load_stl ==
    /\ fmt = "stl"
    /\ ~sniff.done
    /\ sniff' = [done |-> TRUE, buf |-> StlReadBuf(stl_bytes),
                 is_ascii |-> is_ascii(StlReadBuf(stl_bytes))]
    /\ fmt' = IF is_ascii(StlReadBuf(stl_bytes)) THEN "stl_ascii" ELSE "stl_bin"
    /\ UNCHANGED <<stl_bytes, status, pc, nlines, object_name, current_mesh_name,
                   temp_vertices, normals, tex_coords, vertices, indices,
                   indices_counter, meshes, materials, current_material,
                   min_aabb, max_aabb, object, stlOnly, daeOnly, last,
                   batchVars, mtlVars, sceneVars, moreVars>>

InitSniff ==
    /\ ParserIdle
    /\ BatchIdle
    /\ MtlIdle
    /\ SceneIdle
    /\ MoreIdle
    /\ fmt = "stl"
    /\ stl_bytes \in SeqsUpTo(StlRuns, MaxRuns)
    /\ sniff = NoSniff

SpecSniff == InitSniff /\ [][load_stl]_vars

(* ------------------------------------------------------------------ *)
(* parse_mtl                                                            *)
(* ------------------------------------------------------------------ *)
MtlToken_from_str(t) ==
    CASE t = "newmtl" -> "NewMaterial"
      [] t = "Ka" -> "AmbientColor"
      [] t = "Kd" -> "DiffuseColor"
      [] t = "Ks" -> "SpecularColor"
      [] t = "Ke" -> "Emissive"
      [] t = "Ns" -> "SpecularExponent"
      [] t = "Ni" -> "Refraction"
      [] t = "d" -> "Opacity"
      [] t = "Tr" -> "Transparency"
      [] t = "map_Ka" -> "AmbientTexture"
      [] t = "map_Kd" -> "DiffuseTexture"
      [] t = "map_Ks" -> "SpecularTexture"
      [] t = "map_Ns" -> "SpecularHighlightTexture"
      [] t = "map_Ke" -> "EmissiveTexture"
      [] t = "map_Bump" -> "BumpTexture"
      [] t = "bump" -> "BumpTexture"
      [] t = "norm" -> "BumpTexture"
      [] t = "map_d" -> "DisplacementTexture"
      [] t = "decal" -> "DecalTexture"
      [] t = "refl" -> "ReflectionTexture"
      [] OTHER -> "None"

\* TextureType::from_material_str
from_material_str(token) ==
    CASE token = "map_Ka" -> "Ambient"
      [] token = "map_Kd" -> "Diffuse"
      [] token = "map_Ks" -> "Specular"
      [] token = "map_Ns" -> "SpecularHighlight"
      [] token = "map_bump" -> "Bump"
      [] token = "map_d" -> "Displacement"
      [] token = "decal" -> "Decal"
      [] token = "refl" -> "Reflection"
      [] token = "map_Ke" -> "Emissive"
      [] OTHER -> "None"

\* the first words of the lines of a .mtl file
MtlTokens ==
    {"newmtl", "Ka", "Kd", "Ks", "Ke", "Ns", "Ni", "d", "Tr", "map_Ka", "map_Kd",
     "map_Ks", "map_Ns", "map_Ke", "map_Bump", "bump", "norm", "map_d", "decal",
     "refl", "illum"}

\* the arms of parse_mtl's match
MtlColourTextureTokens ==
    {t \in MtlTokens : MtlToken_from_str(t) \in
        {"DiffuseTexture", "AmbientTexture", "SpecularTexture", "EmissiveTexture"}}

MtlBumpTextureTokens == {t \in MtlTokens : MtlToken_from_str(t) = "BumpTexture"}

MtlUnhandledTokens ==
    {t \in MtlTokens : MtlToken_from_str(t) \in
        {"Emissive", "Refraction", "SpecularHighlightTexture",
         "DisplacementTexture", "DecalTexture", "ReflectionTexture", "None"}}

\* texture file names; utils::load_texture fails on "x"
TexFiles == {"a", "x"}

Loadable(name) == name # "x"

MtlMaterialNames == {"M", "N"}

\* what follows the token on a texture line: a file name, a file name after
\* `-bm 1.0`, or nothing
MtlTextureArgs(t) ==
    {[form |-> "name", name |-> "a"]}
    \cup (IF t = "map_Kd"
          THEN {[form |-> "name", name |-> "x"], [form |-> "none", name |-> NoArg]}
          ELSE {})
    \cup (IF t = "map_Bump"
          THEN {[form |-> "name", name |-> "x"], [form |-> "bm", name |-> "a"],
                [form |-> "none", name |-> NoArg]}
          ELSE {})

MtlUnhandledArgs(t) ==
    IF t \in {"map_d", "decal", "refl", "map_Ns"} THEN {"a"} ELSE {NoArg}

\* what follows Ka, Kd, Ks: three floats, or too few words
MtlColourArgs(t) ==
    {[kind |-> "ok", val |-> <<1, 0, 0>>]}
    \cup (IF t = "Ka" THEN {[kind |-> "short", val |-> Zero3]} ELSE {})

\* what follows Ns, d, Tr: a float, or a word that is none
MtlScalarArgs(t) ==
    {[kind |-> "ok", val |-> 3]}
    \cup (IF t = "Ns" THEN {[kind |-> "bad", val |-> 0]} ELSE {})

NoTexture == [id |-> 0, typ |-> "None"]

\* HashMap::insert
MapPut(m, k, v) == [n \in (DOMAIN m) \cup {k} |-> IF n = k THEN v ELSE m[n]]

\* Material::new
Material_new(name, amb, dif, spec, shin, opac, textures) ==
    [name |-> name, ambient_color |-> amb, diffuse_color |-> dif,
     specular_color |-> spec, specular_exponent |-> shin, opacity |-> opac,
     textures |-> textures]

MtlCurrentMaterial_Defaults ==
    Material_new(material_name, Zero3, Zero3, Zero3, 32, 1, mat_textures)

MtlCurrentMaterial ==
    Material_new(material_name, ambient, diffuse, specular, shininess, opacity,
                 mat_textures)

\* the id utils::load_texture returns: a texture name not handed out before
MtlNextTextureId == Cardinality(DOMAIN obj_textures) + 1

\* `let tex = if obj_textures.contains_key(&name) { .. } else { .. }`
MtlLookup(name, typ) ==
    IF name \in DOMAIN obj_textures
    THEN [how |-> "hit", tex |-> [obj_textures[name] EXCEPT !.typ = typ]]
    ELSE IF Loadable(name)
    THEN [how |-> "loaded", tex |-> [id |-> MtlNextTextureId, typ |-> typ]]
    ELSE [how |-> "failed", tex |-> NoTexture]

\* obj_textures after the lookup: insert on a successful load only
MtlCacheAfter_Always(name, r) ==
    IF r.how = "hit" THEN obj_textures ELSE MapPut(obj_textures, name, r.tex)

MtlCacheAfter(name, r) ==
    IF r.how = "loaded" THEN MapPut(obj_textures, name, r.tex) ELSE obj_textures

\* `path.parent().unwrap().join(&name)`
MtlJoin(name) == <<mtl_parents[Len(mtl_parents)], name>>

MtlEvent(token, name, how, tex) ==
    [material |-> material_name, token |-> token, name |-> name, how |-> how,
     tex |-> tex, path |-> MtlJoin(name)]

MtlRunning == mtl_status = "run" /\ mtl_nlines < MaxMtlLines

mtlNames == <<material_name, mtl_materials>>

mtlTextures == <<mat_textures, obj_textures>>

mtlCore == <<fmt, status, pc, nlines, object_name, current_mesh_name,
             temp_vertices, normals, tex_coords, vertices, indices,
             indices_counter, meshes, materials, current_material, min_aabb,
             max_aabb, object, stlOnly, daeOnly, last, batchVars, sniffVars,
             sceneVars>>

mtlOuter == <<mtlCore, moreVars>>

mtlRest == <<mtlOuter, mtl_parents>>

\* an unwrap() of None or of Err
MtlPanic ==
    /\ mtl_status' = "panic"
    /\ UNCHANGED <<mtlNames, mtlColours, mtlTextures, mtl_log, tex_trace>>

\* std::fs::File::open(path)?
MtlOpen(opens) ==
    /\ mtl_status = "open"
    /\ mtl_status' = IF opens THEN "run" ELSE "err"
    /\ UNCHANGED <<mtl_nlines, mtlNames, mtlColours, mtlTextures, mtl_log,
                   tex_trace, mtlRest>>

MtlNewMaterial(arg) ==
    /\ MtlRunning
    /\ mtl_nlines' = mtl_nlines + 1
    /\ UNCHANGED mtlRest
    /\ IF arg = NoArg THEN
            \* the insert happens before the unwrap
            /\ mtl_status' = "panic"
            /\ mtl_materials' = IF material_name # ""
                                 THEN MapPut(mtl_materials, material_name, MtlCurrentMaterial)
                                 ELSE mtl_materials
            /\ mat_textures' = IF material_name # "" THEN <<>> ELSE mat_textures
            /\ UNCHANGED <<material_name, mtlColours, obj_textures, mtl_log, tex_trace>>
       ELSE /\ mtl_materials' = IF material_name # ""
                                 THEN MapPut(mtl_materials, material_name, MtlCurrentMaterial)
                                 ELSE mtl_materials
            /\ mat_textures' = IF material_name # "" THEN <<>> ELSE mat_textures
            /\ material_name' = arg
            /\ tex_trace' = Append(tex_trace, MtlEvent("newmtl", arg, "newmtl", NoTexture))
            /\ UNCHANGED <<mtl_status, mtlColours, obj_textures, mtl_log>>

MtlAmbientColor(arg) ==
    /\ MtlRunning
    /\ mtl_nlines' = mtl_nlines + 1
    /\ UNCHANGED mtlRest
    /\ IF arg.kind # "ok" THEN MtlPanic
       ELSE /\ ambient' = arg.val
            /\ UNCHANGED <<mtl_status, mtlNames, diffuse, specular, shininess,
                           opacity, mtlTextures, mtl_log, tex_trace>>

MtlDiffuseColor(arg) ==
    /\ MtlRunning
    /\ mtl_nlines' = mtl_nlines + 1
    /\ UNCHANGED mtlRest
    /\ IF arg.kind # "ok" THEN MtlPanic
       ELSE /\ diffuse' = arg.val
            /\ UNCHANGED <<mtl_status, mtlNames, ambient, specular, shininess,
                           opacity, mtlTextures, mtl_log, tex_trace>>

MtlSpecularColor(arg) ==
    /\ MtlRunning
    /\ mtl_nlines' = mtl_nlines + 1
    /\ UNCHANGED mtlRest
    /\ IF arg.kind # "ok" THEN MtlPanic
       ELSE /\ specular' = arg.val
            /\ UNCHANGED <<mtl_status, mtlNames, ambient, diffuse, shininess,
                           opacity, mtlTextures, mtl_log, tex_trace>>

MtlSpecularExponent(arg) ==
    /\ MtlRunning
    /\ mtl_nlines' = mtl_nlines + 1
    /\ UNCHANGED mtlRest
    /\ IF arg.kind # "ok" THEN MtlPanic
       ELSE /\ shininess' = arg.val
            /\ UNCHANGED <<mtl_status, mtlNames, ambient, diffuse, specular,
                           opacity, mtlTextures, mtl_log, tex_trace>>

MtlOpacity(arg) ==
    /\ MtlRunning
    /\ mtl_nlines' = mtl_nlines + 1
    /\ UNCHANGED mtlRest
    /\ IF arg.kind # "ok" THEN MtlPanic
       ELSE /\ opacity' = arg.val
            /\ UNCHANGED <<mtl_status, mtlNames, ambient, diffuse, specular,
                           shininess, mtlTextures, mtl_log, tex_trace>>

MtlTransparency(arg) ==
    /\ MtlRunning
    /\ mtl_nlines' = mtl_nlines + 1
    /\ UNCHANGED mtlRest
    /\ IF arg.kind # "ok" THEN MtlPanic
       ELSE /\ opacity' = 1 - arg.val
            /\ UNCHANGED <<mtl_status, mtlNames, ambient, diffuse, specular,
                           shininess, mtlTextures, mtl_log, tex_trace>>

\* the lookup, the `continue` after a failed load, the insert and the push
MtlPushTexture(token, name, typ) ==
    LET r == MtlLookup(name, typ) IN
    /\ tex_trace' = Append(tex_trace, MtlEvent(token, name, r.how, r.tex))
    /\ obj_textures' = MtlCacheAfter(name, r)
    /\ mat_textures' = IF r.how = "failed" THEN mat_textures
                        ELSE Append(mat_textures, r.tex)
    /\ mtl_log' = IF r.how = "failed" THEN Append(mtl_log, "error") ELSE mtl_log
    /\ UNCHANGED <<mtl_status, mtlNames, mtlColours>>

\* map_Kd, map_Ka, map_Ks, map_Ke
MtlColourTexture(token, arg) ==
    /\ MtlRunning
    /\ token \in MtlColourTextureTokens
    /\ mtl_nlines' = mtl_nlines + 1
    /\ UNCHANGED mtlRest
    /\ IF from_material_str(token) = "None" \/ arg.form # "name" THEN MtlPanic
       ELSE MtlPushTexture(token, arg.name, from_material_str(token))

\* map_Bump, bump, norm
MtlBumpTexture(token, arg) ==
    /\ MtlRunning
    /\ token \in MtlBumpTextureTokens
    /\ mtl_nlines' = mtl_nlines + 1
    /\ UNCHANGED mtlRest
    /\ IF arg.form = "none" THEN MtlPanic
       ELSE MtlPushTexture(token, arg.name, "Bump")

\* `_ => { warn!("Unhandled material token: {}", token) }`
MtlUnhandled(token, name) ==
    /\ MtlRunning
    /\ token \in MtlUnhandledTokens
    /\ mtl_nlines' = mtl_nlines + 1
    /\ mtl_log' = Append(mtl_log, "warn")
    /\ tex_trace' = Append(tex_trace, MtlEvent(token, name, "unhandled", NoTexture))
    /\ UNCHANGED <<mtl_status, mtlNames, mtlColours, mtlTextures, mtlRest>>

\* empty lines and comments
MtlSkip ==
    /\ MtlRunning
    /\ mtl_nlines' = mtl_nlines + 1
    /\ UNCHANGED <<mtl_status, mtlNames, mtlColours, mtlTextures, mtl_log,
                   tex_trace, mtlRest>>

\* `let line = line?;`
MtlReadError ==
    /\ MtlRunning
    /\ mtl_nlines' = mtl_nlines + 1
    /\ mtl_status' = "err"
    /\ UNCHANGED <<mtlNames, mtlColours, mtlTextures, mtl_log, tex_trace, mtlRest>>

\* the end of the file: the material in progress is inserted, named or not
MtlEof ==
    /\ mtl_status = "run"
    /\ mtl_materials' = MapPut(mtl_materials, material_name, MtlCurrentMaterial)
    /\ mtl_status' = "ok"
    /\ UNCHANGED <<mtl_nlines, material_name, mtlColours, mtlTextures, mtl_log,
                   tex_trace, mtlRest>>

MtlNext ==
    \/ \E opens \in BOOLEAN : MtlOpen(opens)
    \/ \E arg \in MtlMaterialNames \cup {NoArg} : MtlNewMaterial(arg)
    \/ \E arg \in MtlColourArgs("Ka") : MtlAmbientColor(arg)
    \/ \E arg \in MtlColourArgs("Kd") : MtlDiffuseColor(arg)
    \/ \E arg \in MtlColourArgs("Ks") : MtlSpecularColor(arg)
    \/ \E arg \in MtlScalarArgs("Ns") : MtlSpecularExponent(arg)
    \/ \E arg \in MtlScalarArgs("d") : MtlOpacity(arg)
    \/ \E arg \in MtlScalarArgs("Tr") : MtlTransparency(arg)
    \/ \E token \in MtlColourTextureTokens :
            \E arg \in MtlTextureArgs(token) : MtlColourTexture(token, arg)
    \/ \E token \in MtlBumpTextureTokens :
            \E arg \in MtlTextureArgs(token) : MtlBumpTexture(token, arg)
    \/ \E token \in MtlUnhandledTokens :
            \E name \in MtlUnhandledArgs(token) : MtlUnhandled(token, name)
    \/ MtlSkip
    \/ MtlReadError
    \/ MtlEof

\* load_obj calls parse_mtl with its texture cache: empty at the first
\* library, or holding what an earlier library loaded
MtlCaches == {<<>>, [n \in {"a"} |-> [id |-> 1, typ |-> "Diffuse"]]}

InitMtl ==
    /\ ParserIdle
    /\ BatchIdle
    /\ SniffIdle
    /\ SceneIdle
    /\ MoreIdle
    /\ fmt = "mtl"
    /\ mtl_status = "open"
    /\ mtl_nlines = 0
    /\ material_name = ""
    /\ mtl_materials = <<>>
    /\ ambient = Zero3
    /\ diffuse = Zero3
    /\ specular = Zero3
    /\ shininess = 32
    /\ opacity = 1
    /\ mat_textures = <<>>
    /\ obj_textures \in MtlCaches
    /\ mtl_log = <<>>
    /\ tex_trace = <<>>
    /\ mtl_parents = <<"d">>

SpecMtl == InitMtl /\ [][MtlNext]_vars

\* the directories of the libraries an OBJ file names
MtlDirs == {"d", "e"}

\* load_obj, `for matlib in iter`: parse_mtl is called for the next library
\* with the same texture cache, whatever the previous call returned
MtlLibrary(dir) ==
    /\ mtl_status \in {"ok", "err"}
    /\ Len(mtl_parents) < MaxLibs
    /\ mtl_parents' = Append(mtl_parents, dir)
    /\ mtl_status' = "open"
    /\ mtl_nlines' = 0
    /\ material_name' = ""
    /\ mtl_materials' = <<>>
    /\ ambient' = Zero3
    /\ diffuse' = Zero3
    /\ specular' = Zero3
    /\ shininess' = 32
    /\ opacity' = 1
    /\ mat_textures' = <<>>
    /\ UNCHANGED <<obj_textures, mtl_log, tex_trace, mtlOuter>>

\* the libraries of one OBJ file, their `map_Kd` lines only
LibsNext ==
    \/ \E opens \in BOOLEAN : MtlOpen(opens)
    \/ \E arg \in MtlTextureArgs("map_Kd") : MtlColourTexture("map_Kd", arg)
    \/ MtlEof
    \/ \E dir \in MtlDirs : MtlLibrary(dir)

\* `let mut textures = HashMap::new();` and the first library
InitLibs == InitMtl /\ obj_textures = <<>>

SpecLibs == InitLibs /\ [][LibsNext]_vars

(* ------------------------------------------------------------------ *)
(* parse_dae: from the scene to the geometries                          *)
(* ------------------------------------------------------------------ *)
\* the ids of the <visual_scene> elements: strings as sequences of characters
VisualSceneIds == {<<"v">>}

\* the ids of the <geometry> elements
GeometryIds == {<<"g">>}

\* url attributes: the empty string, "#v", "#w", "v"; "#g", "#h"
SceneUrls == {<<>>, <<"#", "v">>, <<"#", "w">>, <<"v">>}

GeometryUrls == {<<"#", "g">>, <<"#", "h">>}

\* one node: its type and its instance_geometry urls
SceneNodes ==
    [attr_type : {"NODE", "JOINT"},
     instance_geometry : {<<>>} \cup {<<u>> : u \in GeometryUrls}]

\* a document: whether it parses, whether every library element has an id, its
\* <scene>, and the nodes of its one visual scene
Roots ==
    {[parses |-> TRUE, ids |-> TRUE, scene |-> TRUE, instance_visual_scene |-> TRUE,
      attr_url |-> u, nodes |-> n] :
        u \in SceneUrls, n \in SeqsUpTo(SceneNodes, MaxNodes)}
    \cup {[NoRoot EXCEPT !.parses = FALSE], [NoRoot EXCEPT !.ids = FALSE],
           NoRoot, [NoRoot EXCEPT !.scene = TRUE]}

\* &attr_url[1..]: defined on a non-empty string only
UrlId(url) == Tail(url)

\* visual_scenes, the map the fold builds
visual_scenes == [id \in VisualSceneIds |-> root.nodes]

sceneRest == <<fmt, status, pc, nlines, object_name, current_mesh_name,
               temp_vertices, normals, tex_coords, vertices, indices,
               indices_counter, meshes, materials, current_material, min_aabb,
               max_aabb, object, stlOnly, daeOnly, last, batchVars, sniffVars,
               mtlVars, moreVars>>

DaeReturn(result) ==
    /\ dae_pc' = "done"
    /\ dae_result' = result
    /\ UNCHANGED <<root, node_index, sceneRest>>

DaeGoto(where) ==
    /\ dae_pc' = where
    /\ UNCHANGED <<root, node_index, dae_result, sceneRest>>

\* file.read_to_string(..)? and ColladaDocument::from_str(..)?
DaeReadDocument ==
    /\ dae_pc = "read"
    /\ IF root.parses THEN DaeGoto("fold") ELSE DaeReturn("Err: document")

\* the fold over root.libraries, with its expect() on a missing id
DaeFoldLibraries ==
    /\ dae_pc = "fold"
    /\ IF root.ids THEN DaeGoto("scene") ELSE DaeReturn("panic")

\* `if let Some(s) = root.scene`, `if let Some(vs) = s.instance_visual_scene`,
\* and visual_scenes.get(vs_url).unwrap()
DaeSceneLookup ==
    /\ dae_pc = "scene"
    /\ IF ~root.scene THEN DaeReturn("Ok")
       ELSE IF ~root.instance_visual_scene THEN DaeReturn("Err: No visual scene found")
       ELSE IF root.attr_url = <<>> THEN DaeReturn("panic")
       ELSE IF UrlId(root.attr_url) \notin DOMAIN visual_scenes THEN DaeReturn("panic")
       ELSE DaeGoto("nodes")

\* visual_scene.nodes.iter().all(|node| node.attr_type != NodeType::Node)
DaeCheckNodeTypes ==
    /\ dae_pc = "nodes"
    /\ IF \A i \in DOMAIN root.nodes : root.nodes[i].attr_type # "NODE"
       THEN DaeReturn("Err: Visual Scene does not contain any supported nodes")
       ELSE DaeGoto("geoms")

\* visual_scene.nodes.iter().all(|node| node.instance_geometry.is_empty())
DaeCheckGeometryInstances ==
    /\ dae_pc = "geoms"
    /\ IF \A i \in DOMAIN root.nodes : root.nodes[i].instance_geometry = <<>>
       THEN DaeReturn("Err: No top-level node in the visual scene contains an instance of a mesh")
       ELSE DaeGoto("walk")

\* one turn of `for node in &visual_scene.nodes`: the geometries of a NODE are
\* looked up with geometries.get(..).unwrap(); their meshes are parsed by
\* parse_vertices, parse_triangles and parse_polylist
DaeWalkNode ==
    /\ dae_pc = "walk"
    /\ node_index <= Len(root.nodes)
    /\ LET node == root.nodes[node_index] IN
       IF /\ node.attr_type = "NODE"
          /\ \E k \in DOMAIN node.instance_geometry :
                UrlId(node.instance_geometry[k]) \notin GeometryIds
       THEN DaeReturn("panic")
       ELSE /\ node_index' = node_index + 1
            /\ UNCHANGED <<root, dae_pc, dae_result, sceneRest>>

\* Ok(Object{ name: "default_obj", meshes, aabb })
DaeWalkDone ==
    /\ dae_pc = "walk"
    /\ node_index > Len(root.nodes)
    /\ DaeReturn("Ok")

SceneNext ==
    \/ DaeReadDocument
    \/ DaeFoldLibraries
    \/ DaeSceneLookup
    \/ DaeCheckNodeTypes
    \/ DaeCheckGeometryInstances
    \/ DaeWalkNode
    \/ DaeWalkDone

InitScene ==
    /\ ParserIdle
    /\ BatchIdle
    /\ SniffIdle
    /\ MtlIdle
    /\ MoreIdle
    /\ fmt = "dae_scene"
    /\ root \in Roots
    /\ dae_pc = "read"
    /\ node_index = 1
    /\ dae_result = ""

SpecScene == InitScene /\ [][SceneNext]_vars

(* ------------------------------------------------------------------ *)
(* load_obj: the material libraries of one import                       *)
(* ------------------------------------------------------------------ *)
\* what parse_mtl returns for four library files: Err, and three maps that
\* share names
MtlLibraries ==
    {[ok |-> FALSE, map |-> EmptyMap],
     [ok |-> TRUE, map |-> [n \in {"M"} |-> "lib1." \o n]],
     [ok |-> TRUE, map |-> [n \in {"M", "N"} |-> "lib2." \o n]],
     [ok |-> TRUE, map |-> [n \in {"N"} |-> "lib3." \o n]]}

\* the arguments of one `mtllib` line, in order
MtlLibLines == SeqsUpTo(MtlLibraries, MaxLibs)

MaterialsNext ==
    \/ \E libs \in MtlLibLines : ObjMaterialLib(libs)
    \/ \E arg \in {"M", "N", NoArg} : ObjMaterialUsage(arg)
    \/ ObjEof

SpecMaterials == InitObj /\ [][MaterialsNext]_vars

\* <p> slices whose corners carry attribute indices of their own: corner c
\* has position index c, normal index an[c + 1], texcoord index at[c + 1]
DaeCornerIndices == [1..3 -> {0, 1}]

DaeCornerChunk(an, at) ==
    [j \in 1..(3 * max_offset) |->
        LET c == (j - 1) \div max_offset
            off == (j - 1) % max_offset
        IN  IF off = 0 THEN c
            ELSE IF off = normal_offset THEN an[c + 1]
            ELSE IF off = texcoord_offset THEN at[c + 1]
            ELSE 0]

DaeCornerChunks == {DaeCornerChunk(an, at) : an \in DaeCornerIndices, at \in DaeCornerIndices}

\* parse_dae over primitives every corner of which has its own indices
CornersNext ==
    \/ \E pos \in DaePositionSources, vin \in DaeVertexInputs :
          DaeVertices(pos, vin.normal, vin.texcoord)
    \/ \E inputs \in DaeInputs : DaePolylistBegin(inputs, TRUE)
    \/ \E tri \in DaeCornerChunks : DaePolygon([vcount |-> 3, poly |-> tri], FALSE)
    \/ \E inputs \in DaeInputs : DaeTrianglesBegin(inputs, TRUE)
    \/ \E tri \in DaeCornerChunks : DaeTriangle(tri)
    \/ DaePrimitiveEnd
    \/ DaeFinish

SpecCorners == InitDae /\ [][CornersNext]_vars

(* ------------------------------------------------------------------ *)
(* load_fbx: FbxRecordIterator                                          *)
(* ------------------------------------------------------------------ *)
\* the end of the header: the magic is read, then 6 more bytes are skipped
FbxFirstRecord == FBX_MAGIC_SIZE + 6

FbxFileLens == {FbxFirstRecord, FbxFirstRecord + FBX_RECORD_HEAD, MaxFbxLen - 14, MaxFbxLen}

\* the end_offset fields the records of the file hold
FbxEndOffsets == {0, FbxFirstRecord + 27, FbxFirstRecord + 40, MaxFbxLen}

\* name_len, and the bytes of the property list (none, or one Int property)
FbxNameLens == {0, 1}

FbxPropertyBytes == {0, 5}

fbxRest == <<mtlCore, mtlVars, ipcVars>>

FbxMin(a, b) == IF a < b THEN a ELSE b

\* `while self.reader.stream_position().unwrap() < end_offset as _`; the
\* loop of parse_binary_fbx over the iterator has no such test
FbxLoopRuns ==
    IF fbx_stack = <<>> THEN TRUE ELSE fbx_pos < Head(fbx_stack).end_offset

\* one call of FbxRecordIterator::next up to its child loop
FbxRecord(end_offset, name_len, props) ==
    /\ fbx_status = "run"
    /\ FbxLoopRuns
    /\ fbx_calls' = fbx_calls + 1
    /\ UNCHANGED <<fbx_len, fbxRest>>
    /\ IF fbx_pos + FBX_RECORD_HEAD > fbx_len THEN
            \* read_exact(..).unwrap() at the end of the file
            /\ fbx_status' = "panic"
            /\ UNCHANGED <<fbx_pos, fbx_stack>>
       ELSE IF name_len = 0 THEN
            \* return None: the loop of parse_binary_fbx ends, a child loop
            \* pushes nothing and tests its condition again
            /\ fbx_pos' = fbx_pos + FBX_RECORD_HEAD
            /\ fbx_status' = IF fbx_stack = <<>> THEN "todo" ELSE fbx_status
            /\ fbx_stack' = IF fbx_stack = <<>> THEN fbx_stack
                             ELSE <<[Head(fbx_stack) EXCEPT !.closed = TRUE]>>
                                  \o Tail(fbx_stack)
       ELSE LET named == FbxMin(fbx_len, fbx_pos + FBX_RECORD_HEAD + name_len) IN
            IF named + props > fbx_len THEN
                \* parse_properties: an unwrap at the end of the file
                /\ fbx_status' = "panic"
                /\ UNCHANGED <<fbx_pos, fbx_stack>>
            ELSE
                /\ fbx_pos' = named + props
                /\ fbx_stack' = <<[end_offset |-> end_offset, closed |-> FALSE]>>
                                 \o fbx_stack
                /\ UNCHANGED fbx_status

\* the child loop of a call ends and the call returns Some(node)
FbxReturn ==
    /\ fbx_status = "run"
    /\ fbx_stack # <<>>
    /\ ~FbxLoopRuns
    /\ fbx_stack' = Tail(fbx_stack)
    /\ UNCHANGED <<fbx_status, fbx_len, fbx_pos, fbx_calls, fbxRest>>

FbxNext ==
    \/ \E end_offset \in FbxEndOffsets, name_len \in FbxNameLens, props \in FbxPropertyBytes :
          FbxRecord(end_offset, name_len, props)
    \/ FbxReturn

\* parse_binary_fbx: the reader stands behind the header
InitFbx ==
    /\ ParserIdle
    /\ BatchIdle
    /\ SniffIdle
    /\ MtlIdle
    /\ SceneIdle
    /\ IpcIdle
    /\ fmt = "fbx"
    /\ fbx_status = "run"
    /\ fbx_len \in FbxFileLens
    /\ fbx_pos = FbxFirstRecord
    /\ fbx_stack = <<>>
    /\ fbx_calls = 0

\* the reader is sequential code: a step that can be taken is taken
SpecFbx == InitFbx /\ [][FbxNext]_vars /\ WF_vars(FbxNext)

(* ------------------------------------------------------------------ *)
(* ipc::init: the lock file, the named pipe, the listener thread       *)
(* ------------------------------------------------------------------ *)
ipcRest == <<mtlCore, mtlVars, fbxVars>>

ipcHistory == <<ipc_sent, ipc_forwarded, ipc_imported>>

\* args_paths of process p
ArgsPaths(p) == <<p>>

IpcGoto(p, to) == ipc_pc' = [ipc_pc EXCEPT ![p] = to]

\* a connect to pipe_path succeeds: the path exists and a listener is bound
Listening == pipe.exists /\ pipe.listener # 0

\* ipc::init up to the match on try_lock_exclusive
IpcInit(p) ==
    /\ ipc_pc[p] = "start"
    /\ IF ~one_instance[p] THEN
            \* return None
            /\ IpcGoto(p, "window")
            /\ UNCHANGED lock_file
       ELSE IF lock_file = 0 THEN
            /\ lock_file' = p
            /\ IpcGoto(p, "locked")
       ELSE
            \* Err(_): println!, then send_args_to_existing_instance
            /\ IpcGoto(p, "sending")
            /\ UNCHANGED lock_file
    /\ UNCHANGED <<one_instance, pipe, incoming, ipc_rx, ipcHistory, ipcRest>>

\* create_named_pipe: remove_file when the path exists
CreatePipeRemove(p) ==
    /\ ipc_pc[p] = "locked"
    /\ pipe' = [pipe EXCEPT !.exists = FALSE]
    /\ IpcGoto(p, "removed")
    /\ UNCHANGED <<one_instance, lock_file, incoming, ipc_rx, ipcHistory, ipcRest>>

\* create_named_pipe: UnixListener::bind, and the channel of init
CreatePipeBind(p) ==
    /\ ipc_pc[p] = "removed"
    /\ IF pipe.exists THEN
            \* expect("Failed to create named pipe")
            /\ IpcGoto(p, "panic")
            /\ UNCHANGED <<pipe, incoming, ipc_rx, ipcHistory>>
       ELSE /\ pipe' = [exists |-> TRUE, listener |-> p]
            /\ incoming' = <<>>
            /\ ipc_rx' = <<>>
            /\ ipc_sent' = {}
            /\ ipc_forwarded' = <<>>
            /\ ipc_imported' = <<>>
            /\ IpcGoto(p, "bound")
    /\ UNCHANGED <<one_instance, lock_file, ipcRest>>

\* thread::spawn and `Some(ipc_rx)`: main goes on to create its window
IpcSpawn(p) ==
    /\ ipc_pc[p] = "bound"
    /\ IpcGoto(p, "window")
    /\ UNCHANGED <<one_instance, lock_file, pipe, incoming, ipc_rx, ipcHistory, ipcRest>>

\* send_args_to_existing_instance: UnixStream::connect(..).expect(..)
SendConnect(p) ==
    /\ ipc_pc[p] = "sending"
    /\ IF Listening
       THEN /\ incoming' = Append(incoming, [from |-> p, data |-> <<>>, closed |-> FALSE])
            /\ IpcGoto(p, "connected")
       ELSE /\ IpcGoto(p, "panic")
            /\ UNCHANGED incoming
    /\ UNCHANGED <<one_instance, lock_file, pipe, ipc_rx, ipcHistory, ipcRest>>

\* the connection of process p with its data written and its end closed
Written(conns, p) ==
    [i \in 1..Len(conns) |->
        IF conns[i].from = p THEN [from |-> p, data |-> ArgsPaths(p), closed |-> TRUE]
        ELSE conns[i]]

\* the listener that process p connected to is still there
Connected(p) == \E i \in 1..Len(incoming) : incoming[i].from = p

\* send_args_to_existing_instance: write_all(..).expect(..), then exit(0)
SendWrite(p) ==
    /\ ipc_pc[p] = "connected"
    /\ IF Connected(p)
       THEN /\ incoming' = Written(incoming, p)
            /\ ipc_sent' = ipc_sent \cup {p}
            /\ IpcGoto(p, "exited")
       ELSE /\ IpcGoto(p, "panic")
            /\ UNCHANGED <<incoming, ipc_sent>>
    /\ UNCHANGED <<one_instance, lock_file, pipe, ipc_rx, ipc_forwarded, ipc_imported,
                   ipcRest>>

\* the listener thread: one iteration of `for stream in pipe.incoming()`;
\* read_to_end returns when the sender has closed its end
ListenerForward(p) ==
    /\ ipc_pc[p] = "window" /\ pipe.listener = p
    /\ incoming # <<>>
    /\ Head(incoming).closed
    /\ incoming' = Tail(incoming)
    /\ ipc_rx' = Append(ipc_rx, Head(incoming).data)
    /\ ipc_forwarded' = Append(ipc_forwarded, Head(incoming).data)
    /\ UNCHANGED <<ipc_pc, one_instance, lock_file, pipe, ipc_sent, ipc_imported, ipcRest>>

\* rx.try_recv() leaving the list in the channel
try_recv_Peek(rx) ==
    IF rx = <<>> THEN [ok |-> FALSE, paths |-> <<>>, rest |-> rx]
    ELSE [ok |-> TRUE, paths |-> Head(rx), rest |-> rx]

\* rx.try_recv()
try_recv(rx) ==
    IF rx = <<>> THEN [ok |-> FALSE, paths |-> <<>>, rest |-> rx]
    ELSE [ok |-> TRUE, paths |-> Head(rx), rest |-> Tail(rx)]

\* one frame of the main loop of the process that has ipc_rx
Frame(p) ==
    /\ ipc_pc[p] = "window" /\ pipe.listener = p
    /\ ipc_rx' = try_recv(ipc_rx).rest
    /\ ipc_imported' = IF try_recv(ipc_rx).ok
                        THEN Append(ipc_imported, try_recv(ipc_rx).paths)
                        ELSE ipc_imported
    /\ UNCHANGED <<ipc_pc, one_instance, lock_file, pipe, incoming, ipc_sent,
                   ipc_forwarded, ipcRest>>

\* the window of process p is closed and the process ends: its lock is
\* released and its listener is closed with the connections made to it,
\* the path of the pipe stays
CloseWindow(p) ==
    /\ ipc_pc[p] = "window"
    /\ IpcGoto(p, "exited")
    /\ lock_file' = IF lock_file = p THEN 0 ELSE lock_file
    /\ pipe' = IF pipe.listener = p THEN [pipe EXCEPT !.listener = 0] ELSE pipe
    /\ incoming' = IF pipe.listener = p THEN <<>> ELSE incoming
    /\ UNCHANGED <<one_instance, ipc_rx, ipcHistory, ipcRest>>

IpcNext ==
    \E p \in Procs :
        \/ IpcInit(p)
        \/ CreatePipeRemove(p)
        \/ CreatePipeBind(p)
        \/ IpcSpawn(p)
        \/ SendConnect(p)
        \/ SendWrite(p)
        \/ ListenerForward(p)
        \/ Frame(p)
        \/ CloseWindow(p)

\* the processes are started with the settings each one loads; the path of
\* the pipe is there when an earlier run left it
InitIpc ==
    /\ ParserIdle
    /\ BatchIdle
    /\ SniffIdle
    /\ MtlIdle
    /\ SceneIdle
    /\ FbxIdle
    /\ fmt = "ipc"
    /\ ipc_pc = [p \in Procs |-> "start"]
    /\ one_instance \in [Procs -> BOOLEAN]
    /\ lock_file = 0
    /\ pipe \in {NoPipe, [exists |-> TRUE, listener |-> 0]}
    /\ incoming = <<>>
    /\ ipc_rx = <<>>
    /\ ipc_sent = {}
    /\ ipc_forwarded = <<>>
    /\ ipc_imported = <<>>

\* every thread that can take a step takes one: the holder of the pipe goes
\* on to spawn its thread and open its window, a sender to write, the
\* listener thread to forward, the main loop to its next frame
SpecIpc ==
    /\ InitIpc /\ [][IpcNext]_vars
    /\ \A p \in Procs :
          /\ WF_vars(IpcSpawn(p))
          /\ WF_vars(SendWrite(p))
          /\ WF_vars(ListenerForward(p))
          /\ WF_vars(Frame(p) /\ ipc_rx # <<>>)

SpecFacets == InitStlAscii /\ [][FacetsNext]_vars

Init == InitObj \/ InitStlBin \/ InitStlAscii \/ InitDae

Next == ObjNext \/ StlBinNext \/ StlAsciiNext \/ DaeNext

Spec == Init /\ [][Next]_vars

(* ------------------------------------------------------------------ *)
(* Properties of the parsers                                            *)
(* ------------------------------------------------------------------ *)
MeshIndexed(m) ==
    /\ Len(m.indices) % 3 = 0
    /\ \A j \in 1..Len(m.indices) : m.indices[j] >= 0 /\ m.indices[j] < Len(m.vertices)

\* C1: every sub-mesh of an Object returned by load_obj, load_stl or
\* parse_dae has a multiple of 3 indices, each of them smaller than the
\* number of vertices of that sub-mesh.
C1_IndicesAddressVertices ==
    status = "ok" => \A i \in 1..Len(object.meshes) : MeshIndexed(object.meshes[i])

\* an OBJ Object of two sub-meshes with a triangle each: the second was
\* assembled after a flush had reset the index counter
C1_Witness ==
    /\ status = "ok" /\ fmt = "obj" /\ Len(object.meshes) = 2
    /\ \A i \in 1..2 : Len(object.meshes[i].indices) = 3

\* `<=` of f32: false when either side is NaN
F32Le(a, b) == a # F32_NAN /\ b # F32_NAN /\ a <= b

AabbContains(obj) ==
    \A ax \in 1..3 :
        /\ F32Le(obj.aabb.min[ax], obj.aabb.max[ax])
        /\ \A i \in 1..Len(obj.meshes) : \A j \in 1..Len(obj.meshes[i].vertices) :
              /\ F32Le(obj.aabb.min[ax], obj.meshes[i].vertices[j].position[ax])
              /\ F32Le(obj.meshes[i].vertices[j].position[ax], obj.aabb.max[ax])

HasVertex(obj) == \E i \in 1..Len(obj.meshes) : obj.meshes[i].vertices # <<>>

\* C2: a returned Object with at least one vertex has aabb.min <= aabb.max
\* on each axis and every vertex position of every sub-mesh within
\* [aabb.min, aabb.max] componentwise.
C2_AabbContainsVertices ==
    (status = "ok" /\ HasVertex(object)) => AabbContains(object)

\* the same for the Objects none of whose vertex coordinates is NaN
AabbContainsFiniteVertices ==
    (/\ status = "ok" /\ HasVertex(object)
     /\ \A i \in 1..Len(object.meshes) : \A j \in 1..Len(object.meshes[i].vertices) :
            ~HasNaN(object.meshes[i].vertices[j].position))
    => AabbContains(object)

FanAppended ==
    (last.op \in {"f", "polygon"} /\ status = "run" /\ last.n >= 3) =>
        /\ Len(vertices) = last.c + last.n
        /\ Len(indices) = last.k + 3 * (last.n - 2)
        /\ \A i \in 0..(last.n - 3) :
              /\ indices[last.k + 3 * i + 1] = last.c
              /\ indices[last.k + 3 * i + 2] = last.c + i + 1
              /\ indices[last.k + 3 * i + 3] = last.c + i + 2

\* a polylist quad met after a triangle
C3_Witness ==
    /\ fmt = "dae" /\ status = "run" /\ last.op = "polygon"
    /\ last.n = 4 /\ last.c = 3
    /\ indices = <<0, 1, 2, 3, 4, 5, 3, 5, 6>>

\* an OBJ quad on an empty sub-mesh
QuadOnEmptyMesh ==
    (fmt = "obj" /\ last.op = "f" /\ status = "run" /\ last.n = 4 /\ last.c = 0)
    => indices = <<0, 1, 2, 0, 2, 3>>

\* C3: a face of n >= 3 corners met when the sub-mesh holds c vertices
\* appends n vertices and the n - 2 triangles (c, c+i+1, c+i+2), i = 0..n-3,
\* in that order, in load_obj and in parse_polylist alike; an OBJ quad on
\* an empty sub-mesh gives [0,1,2, 0,2,3].
C3_FanTriangulation == FanAppended /\ QuadOnEmptyMesh

\* the vertices the last face or polygon appended
Emitted == SubSeq(vertices, last.c + 1, Len(vertices))

\* C4: in load_obj and parse_polylist a face written with negative
\* references (each with an equivalent positive one) does what the same
\* face written with the positive references does, and emits the same
\* vertices, with or without normals in the file.
C4_NegativeAsPositive ==
    (last.op \in {"f", "polygon"} /\ last.negative /\ last.inrange) =>
        IF status = "panic" THEN ~last.twinOk
        ELSE last.twinOk /\ Emitted = last.twinVertices

\* the same for the faces met after a normal was read
NegativeAsPositiveWithNormals ==
    (last.op \in {"f", "polygon"} /\ last.negative /\ last.inrange /\ ~last.nonormals) =>
        IF status = "panic" THEN ~last.twinOk
        ELSE last.twinOk /\ Emitted = last.twinVertices

FaceNormalFrom(p1, p2, p3) ==
    IF HasNaN(p1) \/ HasNaN(p2) \/ HasNaN(p3) THEN NaNVec
    ELSE Normalize(Cross(VSub(p2, p1), VSub(p3, p1)))

\* every corner of a face met before any vn line carries the normal of the
\* face's first three corner positions
SharedFaceNormal ==
    (fmt = "obj" /\ last.op = "f" /\ status = "run" /\ last.nonormals) =>
        /\ Len(vertices) >= last.c + 3
        /\ \A j \in (last.c + 1)..Len(vertices) :
              vertices[j].normal = FaceNormalFrom(vertices[last.c + 1].position,
                                                  vertices[last.c + 2].position,
                                                  vertices[last.c + 3].position)

\* the file of three v lines and `f 1 2 3` returns one sub-mesh of those
\* three vertices, indices [0,1,2], all carrying the face normal
SingleTriangleFile ==
    (/\ fmt = "obj" /\ status = "run" /\ nlines = 4 /\ Len(temp_vertices) = 3
     /\ last.op = "f" /\ last.refs = <<1, 2, 3>> /\ last.syn = "v" /\ last.nonormals
     /\ status' = "ok")
    => /\ Len(object'.meshes) = 1
       /\ Len(object'.meshes[1].vertices) = 3
       /\ object'.meshes[1].indices = <<0, 1, 2>>
       /\ \A j \in 1..3 :
             /\ object'.meshes[1].vertices[j].position = temp_vertices[j]
             /\ object'.meshes[1].vertices[j].normal =
                   FaceNormalFrom(temp_vertices[1], temp_vertices[2], temp_vertices[3])

\* C5: in an OBJ file every corner of a face that no vn line precedes
\* carries the same normal, computed from the positions of the face's first
\* three corners; three v lines and `f 1 2 3` yield exactly one sub-mesh with
\* 3 vertices and indices [0,1,2], the three vertices sharing that normal.
C5_FallbackFaceNormal == []SharedFaceNormal /\ [][SingleTriangleFile]_vars

\* (-1,0,0) (1,0,0) (0,1,0) and `f 1 2 3`: the normal is (0,0,1)
C5_Witness ==
    /\ fmt = "obj" /\ status = "ok" /\ nlines = 4
    /\ temp_vertices = <<(<<-1, 0, 0>>), (<<1, 0, 0>>), (<<0, 1, 0>>)>>
    /\ Len(object.meshes) = 1
    /\ object.meshes[1].indices = <<0, 1, 2>>
    /\ \A j \in 1..3 :
          /\ object.meshes[1].vertices[j].position = temp_vertices[j]
          /\ object.meshes[1].vertices[j].normal = <<0, 0, 1>>

StlComplete == Len(stl_file.records) >= stl_file.tri_count

\* C6: a binary STL that declares N triangles and holds all N records
\* yields one sub-mesh with 3N vertices and the indices 0..3N-1, vertices
\* 3i, 3i+1, 3i+2 being record i's vertices in order under record i's normal.
C6_BinaryStlComplete ==
    (fmt = "stl_bin" /\ status = "ok" /\ StlComplete) =>
        /\ Len(object.meshes) = 1
        /\ Len(object.meshes[1].vertices) = 3 * stl_file.tri_count
        /\ object.meshes[1].indices = [j \in 1..(3 * stl_file.tri_count) |-> j - 1]
        /\ \A i \in 1..stl_file.tri_count : \A c \in 1..3 :
              /\ object.meshes[1].vertices[3 * (i - 1) + c].position
                    = stl_file.records[i][c + 1]
              /\ object.meshes[1].vertices[3 * (i - 1) + c].normal
                    = stl_file.records[i][1]

\* two declared and two supplied records with different normals
C6_Witness ==
    /\ fmt = "stl_bin" /\ status = "ok" /\ stl_file.tri_count = 2
    /\ Len(stl_file.records) = 2
    /\ stl_file.records[1] # stl_file.records[2]
    /\ Len(object.meshes[1].vertices) = 6

\* C7: a binary STL that declares N triangles and holds only M < N complete
\* records returns an Object whose sub-mesh has exactly the M triangles
\* read; no triangle is emitted for a record that could not be read.
C7_BinaryStlTruncated ==
    (fmt = "stl_bin" /\ status = "ok" /\ ~StlComplete) =>
        /\ Len(object.meshes) = 1
        /\ Len(object.meshes[1].vertices) = 3 * Len(stl_file.records)
        /\ Len(object.meshes[1].indices) = 3 * Len(stl_file.records)

(* ------------------------------------------------------------------ *)
(* Properties of the dispatcher and the batch importer                  *)
(* ------------------------------------------------------------------ *)
\* a file the importer is to hand to a parser
IsModelFile(p) == ~p.dir /\ ToAsciiLowercase(p.ext) \in {"obj", "stl"}

\* a directory, or a file whose extension is missing or names no format
IsSkippable(p) ==
    p.dir \/ p.ext = NoExt \/ ToAsciiLowercase(p.ext) \notin {"obj", "stl", "dae"}

\* the file opens and its parser returns an Object
Imports(p) == p.opens /\ p.content = "Ok"

ModelsOf(i) == Cardinality({j \in 1..Len(objects) : objects[j].name = i})

\* every path handled so far has its one log entry, of the level its end
\* calls for, and its one model if it was imported
HandledInOrder ==
    /\ Len(logger) = next_path - 1
    /\ \A i \in 1..(next_path - 1) :
          /\ logger[i].about = i
          /\ IsSkippable(paths[i]) => logger[i].level = "Info" /\ ModelsOf(i) = 0
          /\ (IsModelFile(paths[i]) /\ Imports(paths[i])) => ModelsOf(i) = 1
          /\ (IsModelFile(paths[i]) /\ ~Imports(paths[i])) =>
                logger[i].level = "Error" /\ ModelsOf(i) = 0
    /\ batch = "done" => next_path = Len(paths) + 1

\* C8: import_models_from_paths handles every path of the batch in order: a
\* failing import is logged as an error and never aborts the batch, every
\* imported path appends exactly one model, and directories and files with
\* a missing or unsupported extension are skipped with an Info entry.
C8_BatchSurvivesFailures ==
    fmt = "batch" => (batch # "panic" /\ HandledInOrder)

\* the same for the batches none of whose files makes its parser panic
BatchSurvivesErrValues ==
    (fmt = "batch" /\ \A i \in 1..Len(paths) : paths[i].content # "Panic")
    => (batch # "panic" /\ HandledInOrder)

\* C9: load_from_file returns an UnsupportedFormat error value, and does
\* not abort, when the extension of the path is absent or unrecognized.
C9_UnsupportedFormatIsAnError ==
    (call.made /\ call.path.opens /\ IsSkippable(call.path)) =>
        (call.result = "Err" /\ call.error = "UnsupportedFormat")

\* C10: load_from_file hands .obj to the OBJ parser, .stl to the STL parser
\* and .dae to the COLLADA parser (load_dae), and the filter of the batch
\* importer lets all three through.
C10_DispatchByExtension ==
    /\ (call.made /\ call.path.opens) =>
          /\ ToAsciiLowercase(call.path.ext) = "obj" => call.parser = "obj::load_obj"
          /\ ToAsciiLowercase(call.path.ext) = "stl" => call.parser = "stl::load_stl"
          /\ ToAsciiLowercase(call.path.ext) = "dae" => call.parser = "collada::load_dae"
    /\ fmt = "batch" =>
          \A i \in 1..Len(logger) :
              (~paths[i].dir /\ ToAsciiLowercase(paths[i].ext) \in {"obj", "stl", "dae"})
              => logger[i].what \in {"Loaded model", "Error loading model"}

\* the same for .obj and .stl alone
DispatchObjAndStl ==
    /\ (call.made /\ call.path.opens) =>
          /\ ToAsciiLowercase(call.path.ext) = "obj" => call.parser = "obj::load_obj"
          /\ ToAsciiLowercase(call.path.ext) = "stl" => call.parser = "stl::load_stl"
    /\ fmt = "batch" =>
          \A i \in 1..Len(logger) :
              (~paths[i].dir /\ ToAsciiLowercase(paths[i].ext) \in {"obj", "stl"})
              => logger[i].what \in {"Loaded model", "Error loading model"}
(* ------------------------------------------------------------------ *)
(* Properties of load_stl                                               *)
(* ------------------------------------------------------------------ *)
\* a byte of text: printable ASCII, or tab, line feed, carriage return
IsText(b) == b \in 32..126 \/ b \in {9, 10, 13}

\* the byte values among the first 512 bytes of the file
FilePrefix == PrefixBytes(stl_bytes, SNIFF_SIZE)

\* C11: load_stl hands the file to the binary parser exactly when some byte
\* among the first 512 bytes of the file is outside printable ASCII text, a
\* non-printable 7-bit byte such as 0x00 as well as an 8-bit byte, and to the
\* ASCII parser otherwise
C11_BinaryOnNonTextByte ==
    sniff.done =>
        ((fmt = "stl_bin") <=> (\E b \in FilePrefix : ~IsText(b)))

\* what load_stl does: the binary parser exactly on a byte above 127
BinaryOnHighByte ==
    sniff.done =>
        ((fmt = "stl_bin") <=> (\E b \in FilePrefix : b > 127))

(* ------------------------------------------------------------------ *)
(* Properties of load_obj's sub-meshes                                  *)
(* ------------------------------------------------------------------ *)
\* the most specific name: the group, else the object, else "default_mesh"
MostSpecificName ==
    IF current_mesh_name # "" THEN current_mesh_name
    ELSE IF object_name # "" THEN object_name
    ELSE "default_mesh"

\* the buffers as a sub-mesh of the given name
Buffered(name) ==
    [name |-> name, vertices |-> vertices, indices |-> indices,
     material |-> current_material]

ObjReturns == fmt = "obj" /\ status = "run" /\ status' = "ok"

\* the end of file appends the buffers as one last sub-mesh
FinalSubMesh ==
    ObjReturns =>
        /\ meshes' = Append(meshes, Buffered(MostSpecificName))
        /\ object'.meshes = meshes'
        /\ object'.name = object_name

ObjectHasSubMesh ==
    (fmt = "obj" /\ status = "ok") => Len(object.meshes) >= 1

\* C12: at the end of the file load_obj appends exactly one final sub-mesh
\* holding whatever is left in the vertex and index buffers, even nothing,
\* named by the group name, else the object name, else "default_mesh"; the
\* returned Object has at least one sub-mesh and the buffered faces are in it
C12_FinalSubMesh == []ObjectHasSubMesh /\ [][FinalSubMesh]_vars

\* a file `o O`, `g G`, `v`, `f` returned with the face in a sub-mesh "G"
C12_Witness ==
    /\ fmt = "obj" /\ status = "ok" /\ last.op = "eof"
    /\ object.name = "O"
    /\ object.meshes[Len(object.meshes)].name = "G"
    /\ object.meshes[Len(object.meshes)].vertices # <<>>

(* ------------------------------------------------------------------ *)
(* Properties of parse_mtl                                              *)
(* ------------------------------------------------------------------ *)
\* the texture directives of the .mtl format and the role each one names
TextureDirectives ==
    {"map_Ka", "map_Kd", "map_Ks", "map_Ke", "map_Bump", "bump", "norm",
     "map_d", "decal", "refl"}

DirectiveRole(t) ==
    CASE t = "map_Ka" -> "Ambient"
      [] t = "map_Kd" -> "Diffuse"
      [] t = "map_Ks" -> "Specular"
      [] t = "map_Ke" -> "Emissive"
      [] t \in {"map_Bump", "bump", "norm"} -> "Bump"
      [] t = "map_d" -> "Displacement"
      [] t = "decal" -> "Decal"
      [] t = "refl" -> "Reflection"
      [] OTHER -> "None"

\* the directives parse_mtl has an arm for
HandledDirectives == MtlColourTextureTokens \cup MtlBumpTextureTokens

\* how often Texture::new was called for the file
LoaderCalls(name) ==
    Cardinality({i \in DOMAIN tex_trace :
                    /\ tex_trace[i].name = name
                    /\ tex_trace[i].how \in {"loaded", "failed"}})

\* lines i and j reference the same file from two different materials
TwoReferences(i, j, directives) ==
    /\ i < j
    /\ tex_trace[i].name = tex_trace[j].name
    /\ tex_trace[i].name \in TexFiles
    /\ tex_trace[i].token \in directives
    /\ tex_trace[j].token \in directives
    /\ tex_trace[i].material # ""
    /\ tex_trace[j].material # ""
    /\ tex_trace[i].material # tex_trace[j].material

\* C13: within one parse of a .mtl library a texture file referenced from two
\* different materials, by any texture directive, is loaded exactly once: the
\* second reference is a cache hit that reuses the first handle, retagged with
\* the role of the second directive
C13_OneLoadPerTextureFile ==
    \A i, j \in DOMAIN tex_trace :
        TwoReferences(i, j, TextureDirectives) =>
            /\ LoaderCalls(tex_trace[i].name) = 1
            /\ tex_trace[j].how = "hit"
            /\ tex_trace[j].tex.id = tex_trace[i].tex.id
            /\ tex_trace[j].tex.typ = DirectiveRole(tex_trace[j].token)

\* what parse_mtl does: a loadable file referenced twice by directives it has
\* an arm for is loaded at most once, and the second reference is a hit
SecondReferenceIsHit ==
    \A i, j \in DOMAIN tex_trace :
        (TwoReferences(i, j, HandledDirectives) /\ Loadable(tex_trace[i].name)) =>
            /\ LoaderCalls(tex_trace[i].name) <= 1
            /\ tex_trace[j].how = "hit"
            /\ tex_trace[j].tex.id = tex_trace[i].tex.id
            /\ tex_trace[j].tex.typ = DirectiveRole(tex_trace[j].token)

\* the step read a texture line
ReadsTextureLine == Len(tex_trace') = Len(tex_trace) + 1

LastEvent == tex_trace[Len(tex_trace)]

\* the step called the loader and the loader failed
FailedLoad == ReadsTextureLine /\ LastEvent'.how = "failed"

SkipsOnlyTheTexture ==
    FailedLoad =>
        /\ mtl_log' = Append(mtl_log, "error")
        /\ mtl_status' = "run"
        /\ mat_textures' = mat_textures
        /\ obj_textures' = obj_textures
        /\ LastEvent'.name \notin DOMAIN obj_textures'
        /\ UNCHANGED <<material_name, mtl_materials, mtlColours>>

\* the library parsed to the end holds the material in progress
MaterialInserted ==
    mtl_status = "ok" =>
        /\ material_name \in DOMAIN mtl_materials
        /\ mtl_materials[material_name] =
               [name |-> material_name, ambient_color |-> ambient,
                diffuse_color |-> diffuse, specular_color |-> specular,
                specular_exponent |-> shininess, opacity |-> opacity,
                textures |-> mat_textures]

\* C14: when the loader fails for one texture line, parse_mtl logs an error
\* and skips that texture only: it goes on with the next line, caches nothing
\* for the file, and the material is inserted with its colours, exponent,
\* opacity and other textures; parse_mtl does not fail because of it
C14_FailedTextureIsSkipped == []MaterialInserted /\ [][SkipsOnlyTheTexture]_vars

\* `newmtl M`, `map_Kd x` (fails), `map_Ka a`, end of file
C14_Witness ==
    /\ mtl_status = "ok"
    /\ material_name = "M"
    /\ \E i \in DOMAIN tex_trace : tex_trace[i].how = "failed"
    /\ "error" \in {mtl_log[i] : i \in DOMAIN mtl_log}
    /\ Len(mtl_materials["M"].textures) = 1
    /\ "x" \notin DOMAIN obj_textures

\* C20: each of map_Ka, map_Kd, map_Ks, map_Ke, map_Bump, bump, norm, map_d,
\* decal, refl followed by a loadable file name appends one texture to the
\* current material's list, tagged Ambient, Diffuse, Specular, Emissive, Bump,
\* Bump, Bump, Displacement, Decal, Reflection respectively
AppendsTextureOfRole(directives) ==
    (/\ ReadsTextureLine
     /\ LastEvent'.token \in directives
     /\ LastEvent'.name \in TexFiles
     /\ Loadable(LastEvent'.name)) =>
        /\ Len(mat_textures') = Len(mat_textures) + 1
        /\ SubSeq(mat_textures', 1, Len(mat_textures)) = mat_textures
        /\ mat_textures'[Len(mat_textures')].typ = DirectiveRole(LastEvent'.token)

C20_TextureDirectivesAppend == [][AppendsTextureOfRole(TextureDirectives)]_vars

\* what parse_mtl does: the seven directives it has an arm for append
HandledDirectivesAppend == [][AppendsTextureOfRole(HandledDirectives)]_vars

(* ------------------------------------------------------------------ *)
(* Properties of parse_dae's scene walk                                 *)
(* ------------------------------------------------------------------ *)
\* parse_dae came as far as the <scene> with its instance of a visual scene
HasSceneInstance ==
    root.parses /\ root.ids /\ root.scene /\ root.instance_visual_scene

\* the scene names a visual scene that no library defines
SceneNotDefined ==
    HasSceneInstance /\ root.attr_url # <<>>
        /\ UrlId(root.attr_url) \notin VisualSceneIds

SceneResolved ==
    HasSceneInstance /\ root.attr_url # <<>>
        /\ UrlId(root.attr_url) \in VisualSceneIds

NoNodeTyped ==
    SceneResolved /\ \A i \in DOMAIN root.nodes : root.nodes[i].attr_type # "NODE"

NoGeometryInstance ==
    SceneResolved /\ \A i \in DOMAIN root.nodes : root.nodes[i].instance_geometry = <<>>

IsErr(result) == result \notin {"", "Ok", "panic"}

\* C15: when the scene references a visual scene id that is in no library, or
\* the visual scene has no NODE-typed node, or no node has a geometry
\* instance, parse_dae returns an error value and never panics
C15_UnsupportedSceneIsAnError ==
    (dae_pc = "done" /\ (SceneNotDefined \/ NoNodeTyped \/ NoGeometryInstance))
        => IsErr(dae_result)

\* what parse_dae does for a visual scene it found
UnsupportedNodesAreAnError ==
    (dae_pc = "done" /\ (NoNodeTyped \/ NoGeometryInstance)) => IsErr(dae_result)

(* ------------------------------------------------------------------ *)
(* Properties of the bounding box                                       *)
(* ------------------------------------------------------------------ *)
\* the vertex positions of all sub-meshes of the Object
VertexPositions(obj) ==
    UNION {{obj.meshes[i].vertices[j].position : j \in 1..Len(obj.meshes[i].vertices)} :
              i \in 1..Len(obj.meshes)}

\* the box touches a vertex on each of its six sides
AabbTight(obj) ==
    \A ax \in 1..3 :
        /\ \E p \in VertexPositions(obj) : p[ax] = obj.aabb.min[ax]
        /\ \E p \in VertexPositions(obj) : p[ax] = obj.aabb.max[ax]

ReturnsFiniteVertices ==
    /\ status = "ok" /\ HasVertex(object)
    /\ \A p \in VertexPositions(object) : ~HasNaN(p)

\* C16: the AABB of a returned Object is exactly the box of the vertex
\* positions its sub-meshes hold; a source position (an OBJ `v` line, a
\* COLLADA position entry) that no emitted vertex uses does not enlarge it
C16_AabbIsExact ==
    ReturnsFiniteVertices => (AabbContains(object) /\ AabbTight(object))

RECURSIVE BoxMin(_, _)
BoxMin(acc, pos) ==
    IF pos = <<>> THEN acc
    ELSE BoxMin(<<F32Min(acc[1], Head(pos)[1]), F32Min(acc[2], Head(pos)[2]),
                  F32Min(acc[3], Head(pos)[3])>>, Tail(pos))

RECURSIVE BoxMax(_, _)
BoxMax(acc, pos) ==
    IF pos = <<>> THEN acc
    ELSE BoxMax(<<F32Max(acc[1], Head(pos)[1]), F32Max(acc[2], Head(pos)[2]),
                  F32Max(acc[3], Head(pos)[3])>>, Tail(pos))

\* what load_obj does: the box is over every `v` line, used by a face or not
AabbOverSourcePositions ==
    (fmt = "obj" /\ status = "ok") =>
        /\ object.aabb.min = BoxMin(AabbMinInit, temp_vertices)
        /\ object.aabb.max = BoxMax(AabbMaxInit, temp_vertices)

(* ------------------------------------------------------------------ *)
(* Properties of load_obj's flushes                                     *)
(* ------------------------------------------------------------------ *)
\* the step read a line with the given directive
ObjReads(op) == fmt = "obj" /\ nlines' = nlines + 1 /\ last'.op = op

\* the name of an `o` / `g` flush: the group name if non-empty, else the
\* object name
GroupElseObject == IF current_mesh_name # "" THEN current_mesh_name ELSE object_name

\* the buffers go to one more sub-mesh of that name iff they hold a vertex,
\* and are reset
FlushesAs(name) ==
    /\ meshes' = IF vertices # <<>> THEN Append(meshes, Buffered(name)) ELSE meshes
    /\ vertices' = <<>>
    /\ indices' = <<>>
    /\ indices_counter' = 0

ObjectFlush ==
    ObjReads("o") =>
        /\ FlushesAs(GroupElseObject)
        /\ object_name' \in ObjectArgs \cup {""}
        /\ UNCHANGED <<current_mesh_name, current_material, status>>

GroupFlush ==
    ObjReads("g") =>
        /\ FlushesAs(GroupElseObject)
        /\ current_mesh_name' \in GroupArgs \cup {"default_mesh"}
        /\ UNCHANGED <<object_name, current_material, status>>

\* the sub-meshes flushed so far stay where they are
MeshesInFileOrder ==
    fmt = "obj" => (Len(meshes') >= Len(meshes) /\ SubSeq(meshes', 1, Len(meshes)) = meshes)

\* C17: an `o` or `g` line appends one sub-mesh iff the vertex buffer is
\* non-empty, holding the buffered vertices and indices and the active
\* material, named by the group name if non-empty, else the object name; it
\* always resets the two buffers and the index counter and replaces the object
\* name (`o`) or the group name (`g`); the sub-meshes stay in file order
C17_ObjectGroupFlush == [][ObjectFlush /\ GroupFlush /\ MeshesInFileOrder]_vars

\* `g G`, `v`, `f`, `o O`: the face went to a sub-mesh "G"
C17_Witness ==
    /\ fmt = "obj" /\ status = "run" /\ last.op = "o"
    /\ Len(meshes) = 1
    /\ meshes[1].name = "G"
    /\ meshes[1].vertices # <<>>
    /\ vertices = <<>> /\ indices = <<>> /\ indices_counter = 0
    /\ object_name = "O"

MaterialLookedUp ==
    /\ current_material' \in {NoMaterial} \cup {materials[n] : n \in DOMAIN materials}
    /\ UNCHANGED <<status, materials, object_name, current_mesh_name>>

\* C18: a `usemtl` line flushes exactly as an `o` / `g` line would in the same
\* state, same condition, name, vertices, indices, material and resets, and
\* then makes the library entry of the given name the active material, or
\* none, without an error
C18_UsemtlFlushesAsObjectGroup ==
    [][ObjReads("usemtl") => (FlushesAs(GroupElseObject) /\ MaterialLookedUp)]_vars

\* what load_obj does: the `usemtl` flush names a sub-mesh "default_mesh" when
\* neither a group nor an object name is set
UsemtlFlush ==
    [][ObjReads("usemtl") => (FlushesAs(MostSpecificName) /\ MaterialLookedUp)]_vars

(* ------------------------------------------------------------------ *)
(* Properties of load_obj's material map                                *)
(* ------------------------------------------------------------------ *)
\* the libraries of the line that parsed and define the name
Defining(libs, n) == {i \in DOMAIN libs : libs[i].ok /\ n \in DOMAIN libs[i].map}

DefinedNames(libs) == UNION {DOMAIN libs[i].map : i \in {j \in DOMAIN libs : libs[j].ok}}

\* the last of them in argument order
LastDefining(libs, n) ==
    CHOOSE i \in Defining(libs, n) : \A j \in Defining(libs, n) : j <= i

\* a `mtllib` line leaves each name with the definition of the last library
\* of the line that defines it, else with the definition it had
MtllibOverwritesByName ==
    ObjReads("mtllib") =>
        /\ DOMAIN materials' = (DOMAIN materials) \cup DefinedNames(last'.libs)
        /\ \A n \in DOMAIN materials' :
              materials'[n] = IF n \in DefinedNames(last'.libs)
                              THEN last'.libs[LastDefining(last'.libs, n)].map[n]
                              ELSE materials[n]
        /\ UNCHANGED <<status, current_material>>

\* no other line changes the map
OnlyMtllibChangesMaterials ==
    (fmt = "obj" /\ ~ObjReads("mtllib")) => materials' = materials

\* a `usemtl` line looks its name up in the map as it is at that line
UsemtlSeesCurrentMap ==
    ObjReads("usemtl") =>
        current_material' = IF last'.mat_name \in DOMAIN materials
                            THEN materials[last'.mat_name] ELSE NoMaterial

\* C19: after any sequence of `mtllib` lines the map holds for each material
\* name the definition of the last library, in line and argument order, that
\* defined it, definitions of other names are kept, and a `usemtl` sees the
\* map as it is when its line is read
C19_LastLibraryWins ==
    [][MtllibOverwritesByName /\ OnlyMtllibChangesMaterials /\ UsemtlSeesCurrentMap]_vars

\* `mtllib lib1 lib2`, `mtllib lib3`, `usemtl N`: M is lib2's, N is lib3's
C19_Witness ==
    /\ fmt = "obj" /\ status = "run" /\ last.op = "usemtl"
    /\ DOMAIN materials = {"M", "N"}
    /\ materials["M"] = "lib2.M"
    /\ materials["N"] = "lib3.N"
    /\ current_material = "lib3.N"

(* ------------------------------------------------------------------ *)
(* Properties of parse_mtl's materials                                  *)
(* ------------------------------------------------------------------ *)
\* the step read a `newmtl` line with a name
ReadsNewMaterial == ReadsTextureLine /\ LastEvent'.token = "newmtl"

\* the material in progress, as a Material
MaterialInProgress ==
    [name |-> material_name, ambient_color |-> ambient, diffuse_color |-> diffuse,
     specular_color |-> specular, specular_exponent |-> shininess,
     opacity |-> opacity, textures |-> mat_textures]

\* `newmtl` stores the named material in progress and clears its texture
\* list; it leaves the colours, the exponent and the opacity as they are
NewMaterialKeepsColours ==
    ReadsNewMaterial =>
        /\ material_name' = LastEvent'.name
        /\ UNCHANGED <<ambient, diffuse, specular, shininess, opacity, obj_textures>>
        /\ IF material_name # ""
           THEN /\ mtl_materials' =
                      [n \in (DOMAIN mtl_materials) \cup {material_name} |->
                          IF n = material_name THEN MaterialInProgress
                          ELSE mtl_materials[n]]
                /\ mat_textures' = <<>>
           ELSE UNCHANGED <<mtl_materials, mat_textures>>

\* the end of the file inserts the material in progress, whatever its name
LastMaterialInserted ==
    (mtl_status = "run" /\ mtl_status' = "ok") =>
        /\ DOMAIN mtl_materials' = (DOMAIN mtl_materials) \cup {material_name}
        /\ mtl_materials'[material_name] = MaterialInProgress
        /\ \A n \in (DOMAIN mtl_materials) \ {material_name} :
              mtl_materials'[n] = mtl_materials[n]

\* C30: a `newmtl` line stores the previous material when its name is
\* non-empty and then clears the texture list only: the colours, the exponent
\* and the opacity stay as an earlier material set them and go into every
\* later material that does not set them; the end of the file inserts the
\* last material, under the empty name when the file has no `newmtl`
C30_NewMaterialKeepsColours == [][NewMaterialKeepsColours /\ LastMaterialInserted]_vars

\* `newmtl M`, `Ka 1 0 0`, `newmtl N`, end of file: N has M's ambient colour
C30_Witness ==
    /\ mtl_status = "ok" /\ mtl_nlines = 3
    /\ DOMAIN mtl_materials = {"M", "N"}
    /\ mtl_materials["M"].ambient_color = <<1, 0, 0>>
    /\ mtl_materials["N"].ambient_color = <<1, 0, 0>>

\* a file without `newmtl` returns one material under the empty name
NamelessMaterial ==
    /\ mtl_status = "ok"
    /\ DOMAIN mtl_materials = {""}

(* ------------------------------------------------------------------ *)
(* Properties of the corners of parse_triangles and parse_polylist      *)
(* ------------------------------------------------------------------ *)
\* the last step assembled a triangle or a polygon from the chunk last.chunk
FaceAssembled ==
    /\ fmt = "dae" /\ status = "run"
    /\ last.op \in {"triangle", "polygon"} /\ last.chunk # <<>>

\* the vertex emitted for corner c of the last face
CornerVertex(c) == vertices[last.c + c + 1]

\* the index of the last face at corner c and the offset off
CornerIndex(c, off) == last.chunk[c * max_offset + off + 1]

\* the entry of a pool an index refers to, or <<>>
PoolEntry(pool, idx) ==
    IF PoolHas(pool, DaeResolve(idx, Len(pool)))
    THEN PoolAt(pool, DaeResolve(idx, Len(pool))) ELSE <<>>

\* C22: in parse_triangles and parse_polylist the index of corner c for a
\* consumed semantic is the entry of <p> at c * max_offset + offset(semantic):
\* the position, the normal and the texture coordinate of the vertex of
\* corner c come from corner c's own indices
C22_CornerOwnIndices ==
    FaceAssembled =>
        \A c \in 0..(last.n - 1) :
            /\ PoolEntry(positions, CornerIndex(c, 0)) = CornerVertex(c).position
            /\ normal_offset # -1 =>
                  PoolEntry(normals, CornerIndex(c, normal_offset))
                      = CornerVertex(c).normal
            /\ texcoord_offset # -1 =>
                  PoolEntry(tex_coords, CornerIndex(c, texcoord_offset))
                      = CornerVertex(c).tex_coords

\* what the two functions do: the position of corner c is read at
\* c * max_offset, the normal and the texture coordinate of every corner at
\* the offsets of corner 0
CornerPositionsFaceAttributes ==
    FaceAssembled =>
        \A c \in 0..(last.n - 1) :
            /\ CornerVertex(c).position = PoolEntry(positions, CornerIndex(c, 0))
            /\ normal_offset # -1 =>
                  CornerVertex(c).normal = PoolEntry(normals, CornerIndex(0, normal_offset))
            /\ texcoord_offset # -1 =>
                  CornerVertex(c).tex_coords
                      = PoolEntry(tex_coords, CornerIndex(0, texcoord_offset))

\* a face whose corners carry two different normal indices
TwoNormalIndices ==
    /\ FaceAssembled /\ normal_offset # -1
    /\ \E c \in 1..(last.n - 1) :
          CornerIndex(c, normal_offset) # CornerIndex(0, normal_offset)

(* ------------------------------------------------------------------ *)
(* Properties of the texture cache across libraries                     *)
(* ------------------------------------------------------------------ *)
\* the references that ended with a texture handle
Handles == {i \in DOMAIN tex_trace : tex_trace[i].how \in {"hit", "loaded"}}

\* the reference that loaded the handle reference j got
LoaderOf(j) ==
    {k \in DOMAIN tex_trace :
        /\ k <= j /\ tex_trace[k].how = "loaded"
        /\ tex_trace[k].tex.id = tex_trace[j].tex.id}

\* C21: the texture cache of one OBJ import is keyed by the resolved path:
\* a reference reuses a handle only if it resolves to the path of the
\* reference that loaded the handle, so one file name in two libraries of
\* different directories gives two loads and two handles; the cache is empty
\* when the first library of an import is opened
C21_CacheKeyedByPath ==
    /\ \A j \in Handles : \A k \in LoaderOf(j) : tex_trace[k].path = tex_trace[j].path
    /\ \A i, j \in Handles :
          tex_trace[i].path # tex_trace[j].path => tex_trace[i].tex.id # tex_trace[j].tex.id
    /\ (Len(mtl_parents) = 1 /\ mtl_status = "open") => obj_textures = <<>>

\* what the code does: the key is the file name as the library writes it; the
\* cache is empty when the first library of an import is opened
CacheKeyedByName ==
    /\ \A j \in Handles : \A k \in LoaderOf(j) : tex_trace[k].name = tex_trace[j].name
    /\ \A i, j \in Handles :
          (tex_trace[i].name = tex_trace[j].name) = (tex_trace[i].tex.id = tex_trace[j].tex.id)
    /\ \A j \in Handles : Cardinality(LoaderOf(j)) = 1
    /\ (Len(mtl_parents) = 1 /\ mtl_status = "open") => obj_textures = <<>>

\* one file name referenced from two libraries in different directories
SameNameTwoDirectories ==
    \E i, j \in Handles :
        /\ tex_trace[i].name = tex_trace[j].name
        /\ tex_trace[i].path # tex_trace[j].path

(* ------------------------------------------------------------------ *)
(* Properties of the facets of an ASCII STL file                        *)
(* ------------------------------------------------------------------ *)
\* the step read one line of the facets of an ASCII STL file
ReadsFacetLine == fmt = "stl_ascii" /\ nlines' = nlines + 1 /\ status' = "run"

\* the vertices of a facet with the normal n and the positions ps
FacetVertices(n, ps) ==
    [i \in 1..3 |-> [position |-> ps[i], normal |-> n, tex_coords |-> Zero2]]

\* `endfacet` emits the three vertices read since the facet before, in file
\* order, with the normal read since the facet before, and the next three
\* indices; the normal and the vertices of the facet do not outlive it
EndFacetEmits ==
    (ReadsFacetLine /\ last'.op = "endfacet") =>
        /\ vertices' = vertices \o FacetVertices(facet_normal, facet_vertices)
        /\ indices' = indices \o <<Len(vertices), Len(vertices) + 1, Len(vertices) + 2>>
        /\ facet_normal' = Zero3
        /\ facet_vertices' = <<>>

\* no other line emits anything: a `vertex` line adds its position to the
\* facet, a `normal` line leaves the positions alone
OtherLinesEmitNothing ==
    (ReadsFacetLine /\ last'.op # "endfacet") =>
        /\ vertices' = vertices /\ indices' = indices
        /\ last'.op = "vertex" =>
              /\ Len(facet_vertices') = Len(facet_vertices) + 1
              /\ SubSeq(facet_vertices', 1, Len(facet_vertices)) = facet_vertices
              /\ facet_normal' = facet_normal
        /\ last'.op = "normal" => facet_vertices' = facet_vertices
        /\ last'.op = "other" => facet_vertices' = facet_vertices /\ facet_normal' = facet_normal

\* the end of the input returns what the closed facets emitted: the lines of
\* a facet that `endfacet` did not close are dropped
EndReturnsClosedFacets ==
    (fmt = "stl_ascii" /\ status = "run" /\ status' = "ok") =>
        /\ Len(object'.meshes) = 1
        /\ object'.meshes[1].vertices = vertices
        /\ object'.meshes[1].indices = indices

\* K facets: 3K vertices and the indices 0 .. 3K-1 in order
FacetsCounted ==
    (fmt = "stl_ascii" /\ status \in {"run", "ok"}) =>
        /\ Len(vertices) = 3 * triangles_read
        /\ indices = [i \in 1..(3 * triangles_read) |-> i - 1]

\* C23: an ASCII STL file of K complete facets yields 3K vertices and the
\* indices 0 .. 3K-1; the vertices 3i .. 3i+2 are the three vertices of facet
\* i in file order with the normal of facet i, no normal passing from one
\* facet to the next; a facet that `endfacet` does not close before the end
\* of the input emits nothing
C23_AsciiFacets ==
    /\ [][EndFacetEmits /\ OtherLinesEmitNothing /\ EndReturnsClosedFacets]_vars
    /\ []FacetsCounted

\* `facet normal 0 0 1` with three vertices, then a second facet without a
\* normal line and an unclosed third: six vertices, the second facet's
\* normal is zero
C23_Witness ==
    /\ fmt = "stl_ascii" /\ status = "ok"
    /\ Len(object.meshes[1].vertices) = 6
    /\ object.meshes[1].vertices[1].normal = <<0, 0, 1>>
    /\ object.meshes[1].vertices[4].normal = Zero3
    /\ object.meshes[1].indices = <<0, 1, 2, 3, 4, 5>>
    /\ facet_vertices # <<>>

(* ------------------------------------------------------------------ *)
(* Properties of the FBX record reader                                  *)
(* ------------------------------------------------------------------ *)
\* the step is a call of next() from the child loop of a record
ReadsChild == fbx_calls' = fbx_calls + 1 /\ fbx_stack # <<>>

\* no child is read for a record after a record of name length 0
NullEndsLevel == ReadsChild => ~Head(fbx_stack).closed

\* children are read only before the end_offset of the enclosing record
ChildrenBeforeEnd == ReadsChild => fbx_pos < Head(fbx_stack).end_offset

\* a record that is read moves the reader forward by its head at least
RecordAdvances ==
    (fbx_calls' = fbx_calls + 1 /\ fbx_status' # "panic") =>
        fbx_pos' >= fbx_pos + FBX_RECORD_HEAD

FbxStopped == fbx_status \in {"todo", "panic"}

\* C24: a record of name length 0 read among the children of a record ends
\* that level, no further child being read for the enclosing record;
\* children are read only while the reader stands before the end_offset of
\* the enclosing record; every record read advances the reader, so the
\* reading ends on every finite input
C24_NullRecordEndsLevel ==
    /\ [][NullEndsLevel /\ ChildrenBeforeEnd /\ RecordAdvances]_vars
    /\ <>FbxStopped

\* what the reader does: a child loop ends at end_offset only, and the
\* reading ends on every finite input, by a panic at the end of the file if
\* not before
ChildLoopEndsAtOffset ==
    /\ [][ChildrenBeforeEnd /\ RecordAdvances]_vars
    /\ [][(fbx_stack # <<>> /\ Len(fbx_stack') < Len(fbx_stack)) =>
              fbx_pos >= Head(fbx_stack).end_offset]_vars
    /\ <>FbxStopped

\* a record of name length 0 was read before the end_offset of its parent
NullBeforeEnd ==
    /\ fbx_status = "run" /\ fbx_stack # <<>>
    /\ Head(fbx_stack).closed /\ fbx_pos < Head(fbx_stack).end_offset

(* ------------------------------------------------------------------ *)
(* Properties of state.objects and state.active_model                   *)
(* ------------------------------------------------------------------ *)
ObjectIds == {objects[i].id : i \in 1..Len(objects)}

\* active_model is None or the id of an object of the list
ActiveIsListed == active_model = None \/ \E id \in ObjectIds : active_model = Some(id)

\* the step appended an object / removed the object at some row
Imported == Len(objects') = Len(objects) + 1

Removed == Len(objects') = Len(objects) - 1

\* the id that left the list in a step that removed an object
RemovedId == CHOOSE id \in ObjectIds : id \notin {objects'[i].id : i \in 1..Len(objects')}

\* an import makes the new object the active one
ImportActivates == Imported => active_model' = Some(objects'[Len(objects')].id)

\* removing the active object activates the last one left, or none;
\* removing another object leaves active_model as it is
RemoveReactivates ==
    Removed =>
        IF active_model = Some(RemovedId)
        THEN active_model' = IF objects' = <<>> THEN None
                             ELSE Some(objects'[Len(objects')].id)
        ELSE active_model' = active_model

\* C25: after any imports and removals active_model is None or the id of an
\* object of state.objects: an import makes the new object active, removing
\* the active object makes the last object left active (None when none is
\* left), removing another object leaves active_model alone; the lookup of
\* the active model in the main loop finds an object
C25_ActiveModelIsListed ==
    /\ [](ActiveIsListed /\ batch # "panic")
    /\ [][ImportActivates /\ RemoveReactivates]_vars

\* the only object was imported and removed again: no active model
C25_Witness ==
    /\ FrameRuns /\ objects = <<>> /\ active_model = None
    /\ \E i \in 1..Len(logger) : logger[i].what = "Loaded model"

\* the active object was removed from above another one, which is active now
ActiveRemovedFromThree ==
    /\ FrameRuns /\ Len(objects) = 2
    /\ objects[1].id = 0 /\ objects[2].id = 1 /\ active_model = Some(1)
    /\ Cardinality({i \in 1..Len(logger) : logger[i].what = "Loaded model"}) = 3

\* the ids of the list grow strictly from row to row
IdsIncrease ==
    \A i, j \in 1..Len(objects) : i < j => objects[i].id < objects[j].id

\* a new object goes to the end of the list, with the id 0 into an empty
\* list and with the id of the last object plus 1 otherwise
NewIdFollowsLast ==
    Imported =>
        /\ SubSeq(objects', 1, Len(objects)) = objects
        /\ objects'[Len(objects')].id =
              IF objects = <<>> THEN 0 ELSE objects[Len(objects)].id + 1

\* a removal takes one row out and leaves the others in their order
RemovalKeepsOrder ==
    Removed => \E i \in 1..Len(objects) : objects' = RemoveAt(objects, i)

\* C26: after any imports and removals the ids of state.objects are pairwise
\* distinct and strictly increasing in list order: a new model gets the id 0
\* in an empty list and the id of the last object plus 1 otherwise, and is
\* appended at the end
C26_IdsIncrease == []IdsIncrease /\ [][NewIdFollowsLast /\ RemovalKeepsOrder]_vars

\* three imports and the removal of the second object: the ids 0 and 2
C26_Witness ==
    /\ FrameRuns /\ Len(objects) = 2
    /\ objects[1].id = 0 /\ objects[2].id = 2

\* an id is used again after the last object was removed: two imports, the
\* second object removed, one more import
IdReused ==
    /\ FrameRuns /\ Len(objects) = 2
    /\ objects[1].id = 0 /\ objects[2].id = 1
    /\ Cardinality({i \in 1..Len(logger) : logger[i].what = "Loaded model"}) = 3

(* ------------------------------------------------------------------ *)
(* Properties of the instances of the program                           *)
(* ------------------------------------------------------------------ *)
\* the processes that are past the lock of ipc::init and still run
PastLock ==
    {p \in Procs : one_instance[p] /\ ipc_pc[p] \in {"locked", "removed", "bound", "window"}}

\* at most one process is past the lock, and it holds the lock
OneLockHolder ==
    /\ Cardinality(PastLock) <= 1
    /\ \A p \in PastLock : lock_file = p

\* a process that did not get the lock never has a window
SenderHasNoWindow ==
    \A p \in Procs :
        ipc_pc[p] \in {"sending", "connected"} => ipc_pc'[p] \in {"sending", "connected", "exited", "panic"}

\* a process that did not get the lock sends its paths and exits
SenderSends ==
    \A p \in Procs :
        /\ (ipc_pc[p] = "sending" /\ ipc_pc'[p] # "sending") => ipc_pc'[p] = "connected"
        /\ (ipc_pc[p] = "connected" /\ ipc_pc'[p] # "connected") =>
              (ipc_pc'[p] = "exited" /\ p \in ipc_sent')

\* with one_instance off a process takes no lock and binds no pipe
NoLockWhenDisabled ==
    \A p \in Procs :
        ~one_instance[p] =>
            /\ lock_file # p /\ pipe.listener # p
            /\ ipc_pc[p] \in {"start", "window", "exited"}

\* C27: with one_instance on at most one process at a time is past
\* ipc::init holding the lock; a process started while another holds the
\* lock sends its paths to the holder and exits before it creates a window;
\* with one_instance off ipc::init takes no lock, creates no pipe and no
\* thread and returns None
C27_OneInstance ==
    /\ [](OneLockHolder /\ NoLockWhenDisabled)
    /\ [][SenderHasNoWindow /\ SenderSends]_vars

\* what holds of the lock: one holder, no window for the others, no lock
\* and no pipe with one_instance off
LockExcludes ==
    /\ [](OneLockHolder /\ NoLockWhenDisabled)
    /\ [][SenderHasNoWindow]_vars

\* a process fails to get the lock only when the pipe is bound and listened
\* to by the holder of the lock
FailsLockOnlyWhenListening ==
    \A p \in Procs :
        (ipc_pc[p] = "start" /\ ipc_pc'[p] = "sending") =>
            (Listening /\ pipe.listener = lock_file)

\* the connect and the write of a process that failed to get the lock succeed
ConnectAndWriteSucceed ==
    \A p \in Procs :
        ipc_pc[p] \in {"sending", "connected"} => ipc_pc'[p] # "panic"

\* C29: whenever a process fails to acquire the lock, the pipe of the lock
\* holder is bound and listening, so the connect and the write of
\* send_args_to_existing_instance succeed in every interleaving, also when
\* the second process runs between the holder's lock and its remove and bind
C29_PipeBoundBeforeLockFails ==
    [][FailsLockOnlyWhenListening /\ ConnectAndWriteSucceed]_vars

\* a connect made while the holder's pipe is bound succeeds
ConnectSucceedsOnceBound ==
    [][\A p \in Procs :
          (ipc_pc[p] = "sending" /\ Listening /\ ipc_pc'[p] # "sending") =>
              ipc_pc'[p] = "connected"]_vars

\* a process stands behind the failed lock while the holder has not bound
SenderBeforeBind ==
    \E p, q \in Procs :
        ipc_pc[p] = "sending" /\ ipc_pc[q] \in {"locked", "removed"}

IsPrefix(a, b) == Len(a) <= Len(b) /\ SubSeq(b, 1, Len(a)) = a

NoDuplicates(a) == \A i, j \in 1..Len(a) : i # j => a[i] # a[j]

\* the lists are forwarded each once and imported in the order they were
\* forwarded, each once; while the window is open a list that was sent is
\* forwarded or waits to be read
ForwardedInOrder ==
    /\ NoDuplicates(ipc_forwarded)
    /\ IsPrefix(ipc_imported, ipc_forwarded)
    /\ ipc_imported \o ipc_rx = ipc_forwarded
    /\ \A i \in 1..Len(ipc_forwarded) :
          \E p \in ipc_sent : ipc_forwarded[i] = ArgsPaths(p)
    /\ \A p \in ipc_sent :
          \/ pipe.listener = 0
          \/ \E i \in 1..Len(ipc_forwarded) : ipc_forwarded[i] = ArgsPaths(p)
          \/ \E i \in 1..Len(incoming) : incoming[i].from = p /\ incoming[i].closed

\* the connections are read in the order they were made
AcceptOrder ==
    (Len(ipc_forwarded') = Len(ipc_forwarded) + 1) =>
        /\ incoming # <<>>
        /\ ipc_forwarded'[Len(ipc_forwarded')] = ArgsPaths(Head(incoming).from)
        /\ incoming' = Tail(incoming)

\* a frame takes one list at most
OneListPerFrame == Len(ipc_imported') <= Len(ipc_imported) + 1

\* a list that was sent is imported, unless the window is closed before
EveryListImported ==
    \A p \in Procs :
        (p \in ipc_sent) ~>
            (\/ \E i \in 1..Len(ipc_imported) : ipc_imported[i] = ArgsPaths(p)
             \/ pipe.listener = 0)

\* C28: every path list sent over the named pipe is forwarded by the
\* listener thread to the main loop once, in the order the connections were
\* accepted; the main loop takes one list per frame at most and, while the
\* window stays open, imports every forwarded list in the end, none lost
\* and none twice
C28_ListsForwardedOnce ==
    /\ []ForwardedInOrder
    /\ [][AcceptOrder /\ OneListPerFrame]_vars
    /\ EveryListImported

\* two processes sent their paths and the holder imported both lists in the
\* order of the connections
C28_Witness ==
    /\ ipc_pc[1] = "window" /\ pipe.listener = 1
    /\ ipc_sent = {2, 3}
    /\ ipc_imported = <<ArgsPaths(3), ArgsPaths(2)>>
    /\ ipc_rx = <<>>

====
